---- MODULE Spec2Model ----
(***************************************************************************)
(* A model of ShyzagoEmpire/soundness: the Discord reply-wait, the session *)
(* lifecycle of the account operations, the account validator and the      *)
(* repeating automation cycle.                                              *)
(*                                                                          *)
(* Each component has its own next-state relation and specification        *)
(* (SpecWait, SpecCycle, SpecOp, SpecPending, ...); Spec is their           *)
(* interleaving.                                                            *)
(***************************************************************************)
EXTENDS Integers, Sequences, FiniteSets, TLC

VARIABLES
    \* ---- reply-wait (waitForBotResponseWithUpdates) ----
    wListeners,     \* the listeners of this wait attached to the client
    wTimer,         \* "armed" | "off": the 30 s timeout ("unset" while the
                    \* interactions POST is awaited and no wait exists yet)
    lastMessage,    \* <<>> (null) or <<m>>: the closure variable lastMessage
    wOutcome,       \* the promise: pending, resolved with a message, rejected
    wSettleCalls,   \* number of calls of resolve()/reject() made so far
    wLateRuns,      \* handler or timer runs that happened after the outcome
    wQualified,     \* a create or edit that qualifies as final was delivered
    wEvent,         \* the event dispatched by the last step
    \* ---- automation cycle (AutomationEngine, AccountManager) ----
    store,          \* AccountManager.accounts.accounts: sequence of accounts
    savedStore,     \* the accounts last written to the accounts file
    lastSave,       \* what the last step did with saveAccounts:
                    \* "none" | "saved" | "failed"
    cycles,         \* the runCycle invocations, one record per slot
    engine,         \* "start" | "firstCycle" | "interval": startContinuousCycle;
                    \* "aborted" once an error has ended the process
    \* ---- one account operation of DiscordClient and its session ----
    config,         \* REQUIRED_ROLES, SPECIAL_ROLES, FALLBACK_CHANNEL_ID
    opName,         \* validateAccount | revalidatePendingAccount | executeSlashCommand
    opAccount,      \* <<account>>: the account argument, <<>> for validateAccount
    opPc,           \* where the call is
    client,         \* "none" | "created" | "loggedIn" | "destroyed": new Client()
    login,          \* "none" | "pending" | "resolved" | "rejected": client.login()
    loginTimer,     \* "none" | "armed" | "fired": the LOGIN_TIMEOUT timer
    opIn,           \* what the platform answered to the call so far
    opResult,       \* what the call returned or threw
    \* ---- handlePendingAccounts over the two DiscordClient implementations ----
    clientImpl,     \* which DiscordClient the engine is built with
    pStore,         \* AccountManager.accounts.accounts
    pStart,         \* the store when handlePendingAccounts was entered
    pQueue,         \* pendingAccounts still to visit
    pPc,            \* "idle" | "loop" | "done"
    pModified,      \* accountsModified
    pLog,           \* per visited account: what the platform answered, what came back
    \* ---- failure tracking of AccountManager ----
    fManager,       \* [accounts, failureCount]: the store and the counters
    fEvents,        \* per account id, the calls made for it so far
    \* ---- the account store and its file (AccountManager) ----
    aStore,         \* this.accounts.accounts
    aFile,          \* <<>> when ACCOUNTS_FILE does not exist, else <<accounts>>
    aLoaded,        \* the store was read from an existing file
    \* ---- one call of GameAPIClient.pollUntilComplete ----
    pollType,       \* "victory" (submitGameCompletion) | "cli" (pollForCLICommand)
    attemptCount,   \* the local attemptCount
    pollPc,         \* "loop" | "request" | "delay" | "done"
    pollResponse,   \* <<>> or <<r>>: what makeRequest gave in this iteration
    pollRequests,   \* requests issued so far
    pollPosts,      \* how many of them were POSTs
    pollDelays,     \* 5 s delays that have elapsed so far
    pollOutcome,    \* what the call returned or threw
    \* ---- one call of Utils.parseCommand ----
    commandString,  \* the argument, a sequence of characters
    parsedArgs,     \* <<>> before the call, <<args>> after it
    \* ---- one call of CLIExecutor.executeCommand ----
    command,        \* the command argument, a sequence of characters
    ptyProcess,     \* "none" | "running" | "killed" | "exited"
    fullOutput,     \* the output received so far
    passwordSent,   \* the local passwordSent
    ptyWrites,      \* ptyProcess.write calls made
    isCompleted,    \* the local isCompleted
    timeout,        \* the watchdog: "none" | "armed" | "cleared" | "fired"
    exitEvent,      \* <<>> or <<[exitCode, signal]>> of the exit event
    execOutcome,    \* the promise of the call
    execSettleCalls, \* resolve/reject calls and throws so far
    \* ---- one classification of a bot reply ----
    classifier,     \* "DiscordClient" (its own methods) | "MessageAnalyzer"
    botReply,       \* the message classified
    analysis,       \* <<>> before the call, <<result>> after it
    \* ---- the nonce generator ----
    timestamp,      \* Date.now() - 1420070400000, counted from a multiple of 2^32
    lastStamp,      \* <<timestamp of the latest generateNonce call>> or <<>>
    nonces,         \* the strings returned by the latest two calls, oldest first
    ticks,          \* milliseconds elapsed since the start
    \* ---- the puzzle provider ----
    puzzleSolution, \* <<string returned by getSolution>> until getStats follows
    payloads,       \* [solution, stats] pairs built for the submissions so far
    \* ---- one call of executeWithRetry ----
    retries,        \* the parameter (2 when omitted)
    retryI,         \* the loop variable i
    retryPc,        \* "loop" | "awaiting" (the action is running) | "done"
    invocations,    \* how each invocation of the action ended, oldest first
    retryDelays,    \* timers awaited between invocations
    retryOutcome,   \* NoOutcome, Returns(value) or Throws(error)
    \* ---- one call of execute8QueensCommands ----
    gStore,         \* the account store
    gQueue,         \* confirmedAccounts still to be visited, current one first
    gPc,            \* "start" | "command" | "submit" | "poll" | "transaction"
                    \* | "delay" | "returned"
    gameInfo,       \* <<game id>> once extracted in the running sequence
    gVictoryUrl,    \* <<URL>> once submitGameCompletion has returned
    anyGamesPlayed, \* the local of that name
    gTrace,         \* per account id: what its sequence received and called
    profMessage,    \* the bot reply handed to parseProfileStats
    profPc,         \* "called" | "returned"
    profStats       \* what parseProfileStats returned: <<>> (null) or <<stats>>

waitVars == <<wListeners, wTimer, lastMessage, wOutcome, wSettleCalls,
              wLateRuns, wQualified, wEvent>>

cycleVars == <<store, savedStore, lastSave, cycles, engine>>

opVars == <<config, opName, opAccount, opPc, client, login, loginTimer,
            opIn, opResult>>

pendVars == <<clientImpl, pStore, pStart, pQueue, pPc, pModified, pLog>>

failVars == <<fManager, fEvents>>

storeVars == <<aStore, aFile, aLoaded>>

pollVars == <<pollType, attemptCount, pollPc, pollResponse, pollRequests,
              pollPosts, pollDelays, pollOutcome>>

parseVars == <<commandString, parsedArgs>>

execVars == <<command, ptyProcess, fullOutput, passwordSent, ptyWrites,
              isCompleted, timeout, exitEvent, execOutcome, execSettleCalls>>

classVars == <<classifier, botReply, analysis>>
nonceVars == <<timestamp, lastStamp, nonces, ticks>>
puzzleVars == <<puzzleSolution, payloads>>
retryVars == <<retries, retryI, retryPc, invocations, retryDelays, retryOutcome>>
gameVars == <<gStore, gQueue, gPc, gameInfo, gVictoryUrl, anyGamesPlayed, gTrace>>
profVars == <<profMessage, profPc, profStats>>

vars == <<waitVars, cycleVars, opVars, pendVars, failVars, storeVars, pollVars,
          parseVars, execVars, classVars, nonceVars, puzzleVars, retryVars, gameVars,
    profVars>>

\* What the actions of one component leave alone
waitRest == <<cycleVars, opVars, pendVars, failVars, storeVars, pollVars,
    parseVars, execVars, classVars, nonceVars, puzzleVars, retryVars, gameVars,
    profVars>>
cycleRest == <<waitVars, opVars, pendVars, failVars, storeVars, pollVars,
    parseVars, execVars, classVars, nonceVars, puzzleVars, retryVars, gameVars,
    profVars>>
opRest == <<waitVars, cycleVars, pendVars, failVars, storeVars, pollVars,
    parseVars, execVars, classVars, nonceVars, puzzleVars, retryVars, gameVars,
    profVars>>
pendRest == <<waitVars, cycleVars, opVars, failVars, storeVars, pollVars,
    parseVars, execVars, classVars, nonceVars, puzzleVars, retryVars, gameVars,
    profVars>>
failRest == <<waitVars, cycleVars, opVars, pendVars, storeVars, pollVars,
    parseVars, execVars, classVars, nonceVars, puzzleVars, retryVars, gameVars,
    profVars>>
storeRest == <<waitVars, cycleVars, opVars, pendVars, failVars, pollVars,
    parseVars, execVars, classVars, nonceVars, puzzleVars, retryVars, gameVars,
    profVars>>
pollRest == <<waitVars, cycleVars, opVars, pendVars, failVars, storeVars,
    parseVars, execVars, classVars, nonceVars, puzzleVars, retryVars, gameVars,
    profVars>>
parseRest == <<waitVars, cycleVars, opVars, pendVars, failVars, storeVars,
    pollVars, execVars, classVars, nonceVars, puzzleVars, retryVars, gameVars,
    profVars>>
execRest == <<waitVars, cycleVars, opVars, pendVars, failVars, storeVars,
    pollVars, parseVars, classVars, nonceVars, puzzleVars, retryVars, gameVars,
    profVars>>
classRest == <<waitVars, cycleVars, opVars, pendVars, failVars, storeVars,
    pollVars, parseVars, execVars, nonceVars, puzzleVars, retryVars, gameVars,
    profVars>>
nonceRest == <<waitVars, cycleVars, opVars, pendVars, failVars, storeVars,
    pollVars, parseVars, execVars, classVars, puzzleVars, retryVars, gameVars,
    profVars>>
puzzleRest == <<waitVars, cycleVars, opVars, pendVars, failVars, storeVars,
    pollVars, parseVars, execVars, classVars, nonceVars, retryVars, gameVars,
    profVars>>
retryRest == <<waitVars, cycleVars, opVars, pendVars, failVars, storeVars,
    pollVars, parseVars, execVars, classVars, nonceVars, puzzleVars, gameVars,
    profVars>>
gameRest == <<waitVars, cycleVars, opVars, pendVars, failVars, storeVars,
    pollVars, parseVars, execVars, classVars, nonceVars, puzzleVars, retryVars,
    profVars>>
profRest == <<waitVars, cycleVars, opVars, pendVars, failVars, storeVars,
    pollVars, parseVars, execVars, classVars, nonceVars, puzzleVars, retryVars,
    gameVars>>

----------------------------------------------------------------------------
(* Bounds *)
MaxMsgId == 2       \* message ids 1..MaxMsgId
MaxCalls == 3       \* the settle-call and late-run counters saturate here
MaxAccounts == 2    \* account ids 1..MaxAccounts
MaxCycles == 2      \* runCycle invocations that may be in flight together
MaxEvents == 6      \* failure-tracking calls made in one run
MaxLen == 5         \* characters of a command string
MaxOutput == 4      \* pieces of output a process writes
MaxChunk == 2       \* pieces of output in one data event
MaxTicks == 3       \* milliseconds the nonce clock advances in one run
MaxPayloads == 3    \* game submissions whose payload is built in one run
MaxRetries == 3     \* largest retries argument of executeWithRetry
MaxFields == 4      \* fields of a profile embed

(* Program constants *)
LoadingFlags == 192
FinalFlags == 64
FailureThreshold == 3
maxAttempts == 2160

Min(a, b) == IF a < b THEN a ELSE b

----------------------------------------------------------------------------
(* Reply-wait: messages and events *)

channelId == "target"
botId == "bot"

\* flags: <<>> when message.flags is absent, <<n>> when flags.bitfield = n
FlagValues == {<<>>, <<0>>, <<FinalFlags>>, <<128>>, <<LoadingFlags>>}

Messages ==
    [id : 1..MaxMsgId, channel : {channelId, "other"},
     author : {botId, "user"}, flags : FlagValues]

\* message.flags?.bitfield === n
BitfieldIs(m, n) == m.flags = <<n>>

\* !message.flags?.bitfield
BitfieldFalsy(m) == m.flags = <<>> \/ m.flags = <<0>>

Pending == [kind |-> "pending", msg |-> <<>>]
Resolved(m) == [kind |-> "resolved", msg |-> <<m>>]
TimeoutRejection == [kind |-> "rejected", msg |-> <<>>]

NoEvent == [type |-> "none", old |-> <<>>, new |-> <<>>]
CreateEvent(m) == [type |-> "messageCreate", old |-> <<>>, new |-> <<m>>]
UpdateEvent(o, n) == [type |-> "messageUpdate", old |-> <<o>>, new |-> <<n>>]
TimerEvent == [type |-> "timeout", old |-> <<>>, new |-> <<>>]

\* resolve(v) / reject(e) of the promise: only the first call settles it
Settle(o) ==
    /\ wOutcome' = IF wOutcome = Pending THEN o ELSE wOutcome
    /\ wSettleCalls' = Min(wSettleCalls + 1, MaxCalls)

cleanup_keepsUpdateListener ==
    /\ wTimer' = "off"
    /\ wListeners' = wListeners \ {"messageCreate"}

cleanup ==
    /\ wTimer' = "off"
    /\ wListeners' = wListeners \ {"messageCreate", "messageUpdate"}

\* A run of a handler of this wait; counted when the wait was already settled
RunHandler ==
    wLateRuns' = IF wOutcome # Pending THEN Min(wLateRuns + 1, MaxCalls)
                 ELSE wLateRuns

messageHandler_requiresFinalFlag(message) ==
    /\ RunHandler
    /\ IF message.channel = channelId /\ message.author = botId
       THEN /\ lastMessage' = <<message>>
            /\ IF BitfieldIs(message, FinalFlags)
               THEN cleanup /\ Settle(Resolved(message))
               ELSE UNCHANGED <<wTimer, wListeners, wOutcome, wSettleCalls>>
       ELSE UNCHANGED <<lastMessage, wTimer, wListeners, wOutcome, wSettleCalls>>

messageHandler(message) ==
    /\ RunHandler
    /\ IF message.channel = channelId /\ message.author = botId
       THEN /\ lastMessage' = <<message>>
            /\ IF BitfieldIs(message, LoadingFlags)
               THEN UNCHANGED <<wTimer, wListeners, wOutcome, wSettleCalls>>
               ELSE IF BitfieldIs(message, FinalFlags) \/ BitfieldFalsy(message)
                    THEN cleanup /\ Settle(Resolved(message))
                    ELSE UNCHANGED <<wTimer, wListeners, wOutcome, wSettleCalls>>
       ELSE UNCHANGED <<lastMessage, wTimer, wListeners, wOutcome, wSettleCalls>>

updateHandler_resolvesOld(oldMessage, newMessage) ==
    /\ RunHandler
    /\ UNCHANGED lastMessage
    /\ IF /\ newMessage.channel = channelId
          /\ newMessage.author = botId
          /\ lastMessage # <<>>
          /\ lastMessage[1].id = newMessage.id
          /\ BitfieldIs(oldMessage, LoadingFlags)
          /\ BitfieldIs(newMessage, FinalFlags)
       THEN cleanup /\ Settle(Resolved(oldMessage))
       ELSE UNCHANGED <<wTimer, wListeners, wOutcome, wSettleCalls>>

isLastMessage_unchecked(newMessage) == TRUE

\* lastMessage && lastMessage.id === newMessage.id
isLastMessage(newMessage) ==
    IF lastMessage = <<>> THEN FALSE ELSE lastMessage[1].id = newMessage.id

updateHandler(oldMessage, newMessage) ==
    /\ RunHandler
    /\ UNCHANGED lastMessage
    /\ IF /\ newMessage.channel = channelId
          /\ newMessage.author = botId
          /\ isLastMessage(newMessage)
          /\ BitfieldIs(oldMessage, LoadingFlags)
          /\ BitfieldIs(newMessage, FinalFlags)
       THEN cleanup /\ Settle(Resolved(newMessage))
       ELSE UNCHANGED <<wTimer, wListeners, wOutcome, wSettleCalls>>

timeoutCallback_onlyCleanup ==
    /\ RunHandler
    /\ cleanup
    /\ UNCHANGED <<lastMessage, wOutcome, wSettleCalls>>

timeoutCallback ==
    /\ RunHandler
    /\ cleanup
    /\ Settle(TimeoutRejection)
    /\ UNCHANGED lastMessage

\* What the 4.4 state machine calls a final message / a final edit
QualifiesCreate(m) ==
    /\ m.channel = channelId /\ m.author = botId
    /\ (BitfieldIs(m, FinalFlags) \/ BitfieldFalsy(m))

QualifiesUpdate(o, n) ==
    /\ n.channel = channelId /\ n.author = botId
    /\ lastMessage # <<>> /\ lastMessage[1].id = n.id
    /\ BitfieldIs(o, LoadingFlags) /\ BitfieldIs(n, FinalFlags)

InitWait ==
    /\ wListeners = {"messageCreate", "messageUpdate"}
    /\ wTimer = "armed"
    /\ lastMessage = <<>>
    /\ wOutcome = Pending
    /\ wSettleCalls = 0
    /\ wLateRuns = 0
    /\ wQualified = FALSE
    /\ wEvent = NoEvent

\* The client emits messageCreate: the handler runs iff it is still attached
EmitMessageCreate(m) ==
    /\ UNCHANGED waitRest
    /\ wEvent' = CreateEvent(m)
    /\ IF "messageCreate" \in wListeners
       THEN /\ messageHandler(m)
            /\ wQualified' = (wQualified \/ QualifiesCreate(m))
       ELSE UNCHANGED <<wListeners, wTimer, lastMessage, wOutcome,
                        wSettleCalls, wLateRuns, wQualified>>

\* The client emits messageUpdate for an edit of a message (same id,
\* channel and author; the flags before and after)
EmitMessageUpdate(o, n) ==
    /\ o.id = n.id /\ o.channel = n.channel /\ o.author = n.author
    /\ UNCHANGED waitRest
    /\ wEvent' = UpdateEvent(o, n)
    /\ IF "messageUpdate" \in wListeners
       THEN /\ updateHandler(o, n)
            /\ wQualified' = (wQualified \/ QualifiesUpdate(o, n))
       ELSE UNCHANGED <<wListeners, wTimer, lastMessage, wOutcome,
                        wSettleCalls, wLateRuns, wQualified>>

\* The 30 s timer expires; a cleared timer never fires
TimerFire ==
    /\ wTimer = "armed"
    /\ wEvent' = TimerEvent
    /\ timeoutCallback
    /\ UNCHANGED wQualified
    /\ UNCHANGED waitRest

NextWait ==
    \/ \E m \in Messages : EmitMessageCreate(m)
    \/ \E n \in Messages, f \in FlagValues :
            EmitMessageUpdate([n EXCEPT !.flags = f], n)
    \/ TimerFire

\* executeSlashCommandInternal has sent the interactions POST and awaits its
\* response; waitForBotResponseWithUpdates has not been called
InitInteraction ==
    /\ wListeners = {}
    /\ wTimer = "unset"
    /\ lastMessage = <<>>
    /\ wOutcome = Pending
    /\ wSettleCalls = 0
    /\ wLateRuns = 0
    /\ wQualified = FALSE
    /\ wEvent = NoEvent

\* The POST returns: waitForBotResponseWithUpdates arms the timer and
\* attaches its two listeners
PostReturns ==
    /\ wTimer = "unset"
    /\ wTimer' = "armed"
    /\ wListeners' = {"messageCreate", "messageUpdate"}
    /\ UNCHANGED <<lastMessage, wOutcome, wSettleCalls, wLateRuns, wQualified,
                   wEvent, waitRest>>

NextInteraction == PostReturns \/ NextWait

----------------------------------------------------------------------------
(* Account store (AccountManager) *)

AccountIds == 1..MaxAccounts

Account(i, st, ch) == [id |-> i, status |-> st, executableChannel |-> ch]

\* The status/channel pairs the validator and the revalidator produce
StoredShapes ==
    {<<"pending", "none">>, <<"confirmed", "general">>, <<"confirmed", "fallback">>}

RECURSIVE StoresFrom(_)
\* The stores over the account ids i..MaxAccounts, ids ascending
StoresFrom(i) ==
    IF i > MaxAccounts THEN {<<>>}
    ELSE LET rest == StoresFrom(i + 1) IN
         rest \cup {<<Account(i, sh[1], sh[2])>> \o r : sh \in StoredShapes, r \in rest}

getAccountsByStatus(s, status) == SelectSeq(s, LAMBDA a : a.status = status)

addOrUpdateAccount_alwaysPushes(s, accountData) == Append(s, accountData)

addOrUpdateAccount(s, accountData) ==
    IF \E k \in 1..Len(s) : s[k].id = accountData.id
    THEN [k \in 1..Len(s) |-> IF s[k].id = accountData.id THEN accountData ELSE s[k]]
    ELSE Append(s, accountData)

removeAccount_removesNone(s, accountId) == s

removeAccount(s, accountId) == SelectSeq(s, LAMBDA a : a.id # accountId)

----------------------------------------------------------------------------
(* Cycle orchestrator (AutomationEngine.startContinuousCycle / runCycle) *)

CycleSlots == 1..MaxCycles

\* pc: "idle" or the phase of runCycle; queue: the accounts the phase's loop
\* still has to visit, the head being the current one; op: "inflight" while
\* the account operation is awaited, "delay" while Utils.delay is awaited.
\* completed and mutated record what happened in the cycle: a game sequence
\* returned success, removeAccount or addOrUpdateAccount was called
IdleCycle ==
    [pc |-> "idle", queue |-> <<>>, op |-> "none", gamesPlayed |-> FALSE,
     accountsModified |-> FALSE, first |-> FALSE, completed |-> FALSE,
     mutated |-> FALSE]

Loop(c, phase, q) == [c EXCEPT !.pc = phase, !.queue = q, !.op = "inflight"]

Done(c) == [c EXCEPT !.pc = "done", !.queue = <<>>, !.op = "none"]

EnterProfiles_whenConfirmed(c, s) ==
    LET q == getAccountsByStatus(s, "confirmed") IN
    IF q # <<>> THEN Loop(c, "profiles", q) ELSE Done(c)

\* executeProfileCommands, entered only when a game was played
EnterProfiles(c, s) ==
    LET q == getAccountsByStatus(s, "confirmed") IN
    IF c.gamesPlayed /\ q # <<>> THEN Loop(c, "profiles", q) ELSE Done(c)

\* execute8QueensCommands; without confirmed accounts no game is played
EnterGames(c, s) ==
    LET q == getAccountsByStatus(s, "confirmed") IN
    IF q # <<>> THEN Loop(c, "games", q) ELSE Done(c)

\* handlePendingAccounts
EnterPending(c, s) ==
    LET q == getAccountsByStatus(s, "pending") IN
    IF q # <<>> THEN Loop(c, "pending", q) ELSE EnterGames(c, s)

\* The phase after the loop of c.pc has visited its last account
NextPhase(c, s) ==
    CASE c.pc = "pending" -> EnterGames(c, s)
      [] c.pc = "games" -> EnterProfiles(c, s)
      [] OTHER -> Done(c)

shouldSave_always(c) == TRUE

\* if (accountsModified) this.accountManager.saveAccounts()
shouldSave(c) == c.accountsModified

propagates_uncaught(threw) == threw

\* The try/catch of runCycle: what is thrown inside the cycle is logged
\* ("Cycle failed") and does not leave runCycle
propagates(threw) == FALSE

\* The end of runCycle: saveAccounts is called if accountsModified, and it
\* throws when the file cannot be written (ErrorHandler.handle rethrows);
\* the end of the first cycle lets startContinuousCycle call setInterval.
\* An error leaving runCycle would end the process
EndCycle(i, c, threw) ==
    /\ cycles' = [cycles EXCEPT ![i] = IdleCycle]
    /\ savedStore' = IF shouldSave(c) /\ ~threw THEN store' ELSE savedStore
    /\ lastSave' = IF ~shouldSave(c) THEN "none"
                   ELSE IF threw THEN "failed" ELSE "saved"
    /\ engine' = IF propagates(threw) THEN "aborted"
                 ELSE IF c.first THEN "interval" ELSE engine

\* runCycle runs without suspending up to its first account operation or,
\* when there is none, to its end
Proceed(i, c) ==
    IF c.pc = "done"
    THEN \E threw \in BOOLEAN :
            /\ threw => shouldSave(c)
            /\ EndCycle(i, c, threw)
    ELSE /\ cycles' = [cycles EXCEPT ![i] = c]
         /\ engine' = IF c.first THEN "firstCycle" ELSE engine
         /\ lastSave' = "none"
         /\ UNCHANGED savedStore

\* The loop of cycle c goes to its next account or, after the last one, the
\* cycle goes to its next phase
Advance(i, c) ==
    IF Tail(c.queue) # <<>>
    THEN Proceed(i, [c EXCEPT !.queue = Tail(c.queue), !.op = "inflight"])
    ELSE Proceed(i, NextPhase(c, store'))

runCycle(i, isFirst) ==
    /\ UNCHANGED store
    /\ Proceed(i, EnterPending([IdleCycle EXCEPT !.first = isFirst], store))

InitCycle ==
    /\ store \in StoresFrom(1)
    /\ savedStore = store
    /\ lastSave = "none"
    /\ cycles = [i \in CycleSlots |-> IdleCycle]
    /\ engine = "start"

\* startContinuousCycle: await this.runCycle()
StartContinuousCycle ==
    /\ engine = "start"
    /\ runCycle(1, TRUE)
    /\ UNCHANGED cycleRest

\* The repeating timer fires: the callback calls runCycle, whatever the
\* earlier invocations are doing
IntervalFire ==
    /\ engine = "interval"
    /\ \E i \in CycleSlots :
          /\ cycles[i].pc = "idle"
          /\ \A j \in 1..(i - 1) : cycles[j].pc # "idle"
          /\ runCycle(i, FALSE)
    /\ UNCHANGED cycleRest

\* What handlePendingAccounts distinguishes in the value returned by
\* revalidatePendingAccount, what execute8QueensCommands distinguishes in
\* the result of executeGameSequence, and the outcomes of the profile command
RevalidationResults == {"null", "confirmed", "unchanged"}
GameResults == {"success", "rateLimited", "accessRestricted", "error"}
ProfileResults == {"stats", "accessRestricted", "unparseable", "error"}

\* The awaited account operation of cycle i returns (or throws) r; the loop
\* body runs to its end and the loop awaits the inter-command delay. The
\* profile loop skips the delay for an access-restricted reply (continue)
OperationReturns(i, r) ==
    LET c == cycles[i]
        account == Head(c.queue)
    IN
    /\ engine # "aborted"
    /\ c.op = "inflight"
    /\ CASE c.pc = "pending" ->
              /\ r \in RevalidationResults
              /\ store' = CASE r = "null" -> removeAccount(store, account.id)
                            [] r = "confirmed" ->
                                 addOrUpdateAccount(store,
                                     Account(account.id, "confirmed", "fallback"))
                            [] OTHER -> store
              /\ cycles' = [cycles EXCEPT ![i] =
                    [c EXCEPT !.op = "delay",
                              !.accountsModified = @ \/ r # "unchanged",
                              !.mutated = @ \/ r \in {"null", "confirmed"}]]
              /\ lastSave' = "none"
              /\ UNCHANGED <<savedStore, engine>>
         [] c.pc = "games" ->
              /\ r \in GameResults
              /\ store' = store
              /\ cycles' = [cycles EXCEPT ![i] =
                    [c EXCEPT !.op = "delay",
                              !.gamesPlayed = @ \/ r = "success",
                              !.completed = @ \/ r = "success"]]
              /\ lastSave' = "none"
              /\ UNCHANGED <<savedStore, engine>>
         [] c.pc = "profiles" ->
              /\ r \in ProfileResults
              /\ store' = IF r = "stats" THEN addOrUpdateAccount(store, account)
                          ELSE store
              /\ IF r = "accessRestricted"
                 THEN Advance(i, c)
                 ELSE /\ cycles' = [cycles EXCEPT ![i] =
                            [c EXCEPT !.op = "delay",
                                      !.accountsModified = @ \/ r = "stats",
                                      !.mutated = @ \/ r = "stats"]]
                      /\ lastSave' = "none"
                      /\ UNCHANGED <<savedStore, engine>>
    /\ UNCHANGED cycleRest

\* The delay of cycle i is over
DelayOver(i) ==
    /\ engine # "aborted"
    /\ cycles[i].op = "delay"
    /\ UNCHANGED store
    /\ Advance(i, cycles[i])
    /\ UNCHANGED cycleRest

NextCycle ==
    \/ StartContinuousCycle
    \/ IntervalFire
    \/ \E i \in CycleSlots, r \in RevalidationResults \cup GameResults \cup ProfileResults :
          OperationReturns(i, r)
    \/ \E i \in CycleSlots : DelayOver(i)

RunningCycles == {i \in CycleSlots : cycles[i].pc # "idle"}

OperationsInFlight == {i \in CycleSlots : cycles[i].op = "inflight"}

----------------------------------------------------------------------------
(* Bot replies and their classification (DiscordClient) *)

\* Text is modelled as a sequence of words; includes() is containment of a
\* contiguous run of words
Includes(text, part) ==
    \E k \in 0..(Len(text) - Len(part)) :
        \A j \in 1..Len(part) : text[k + j] = part[j]

Embed(title, fields) == [title |-> title, fields |-> fields]
Field(name, value) == [name |-> name, value |-> value]
Reply(embeds, content) == [embeds |-> embeds, content |-> content]

\* A field value: <<n>> when it holds a bolded number **n**, else <<>>
StatFields == <<Field(<<"Games", "Played">>, <<42>>), Field(<<"Wins">>, <<10>>)>>

Replies ==
    { Reply(<<Embed(<<"Access", "Restricted">>, <<>>)>>, <<>>),
      Reply(<<Embed(<<"Player", "Profile">>, StatFields)>>, <<>>),
      Reply(<<Embed(<<"Player", "Profile">>, <<>>)>>, <<>>),
      Reply(<<Embed(<<"8", "Queens">>, <<>>)>>, <<>>),
      Reply(<<>>, <<"please", "wait", "24", "hours">>),
      Reply(<<Embed(<<"Player", "Profile">>, StatFields)>>,
            <<"too", "many", "games", "recently">>),
      Reply(<<Embed(<<"Profile", "Access", "Restricted">>, StatFields)>>, <<>>),
      Reply(<<>>, <<>>) }

isAccessRestricted(message) ==
    \/ /\ message.embeds # <<>>
       /\ Includes(message.embeds[1].title, <<"Access", "Restricted">>)
    \/ Includes(message.content, <<"too", "many", "games", "recently">>)
    \/ Includes(message.content, <<"wait", "24", "hours">>)

\* The regular expressions parseProfileStats tests field names with
GamesPlayedRe(name) ==
    \E k \in 1..(Len(name) - 1) :
        name[k] \in {"Game", "Games"} /\ name[k + 1] = "Played"
WinsRe(name) == \E k \in 1..Len(name) : name[k] \in {"Win", "Wins"}
WinRateRe(name) ==
    \E k \in 1..(Len(name) - 1) : name[k] = "Win" /\ name[k + 1] = "Rate"
BadgesRe(name) == \E k \in 1..Len(name) : name[k] \in {"Badge", "Badges"}

\* regex.test(name)
test(regex, name) ==
    CASE regex = "games?\\s+played" -> GamesPlayedRe(name)
      [] regex = "wins?" -> WinsRe(name)
      [] regex = "win\\s+rate" -> WinRateRe(name)
      [] regex = "badges?" -> BadgesRe(name)

\* extractNumberFromField(fields, regex) || 0: the bolded number of the
\* first field whose name matches, 0 when there is none
extractNumberFromField(fields, regex) ==
    LET hits == {k \in 1..Len(fields) : test(regex, fields[k].name)} IN
    IF hits = {} THEN 0
    ELSE LET first == CHOOSE k \in hits : \A j \in hits : k <= j IN
         IF fields[first].value = <<>> THEN 0 ELSE fields[first].value[1]

ZeroStats == [played |-> 0, wins |-> 0, winRate |-> 0, badgesEarned |-> 0]

\* <<>> for null, <<stats>> otherwise
parseProfileStats(message) ==
    IF isAccessRestricted(message) THEN <<>>
    ELSE IF message.embeds # <<>> /\ Includes(message.embeds[1].title, <<"Profile">>)
    THEN LET fields == message.embeds[1].fields IN
         << [played |-> extractNumberFromField(fields, "games?\\s+played"),
             wins |-> extractNumberFromField(fields, "wins?"),
             winRate |-> extractNumberFromField(fields, "win\\s+rate"),
             badgesEarned |-> extractNumberFromField(fields, "badges?")] >>
    ELSE <<>>

\* The fields a profile embed may carry, and one the parser has no use for
FieldPool ==
    { Field(<<"Games", "Played">>, <<42>>), Field(<<"Wins">>, <<10>>),
      Field(<<"Win", "Rate">>, <<24>>), Field(<<"Badges">>, <<5>>),
      Field(<<"Rank">>, <<7>>) }

\* Every embed field list: some fields of the pool, in some order
FieldLists ==
    UNION { { f \in [1..n -> FieldPool] : \A i, j \in 1..n : i # j => f[i] # f[j] } :
            n \in 0..MaxFields }

ProfileTitles ==
    { <<"Player", "Profile">>, <<"Profile", "Access", "Restricted">>,
      <<"8", "Queens">> }

ProfileReplies ==
    { Reply(<<Embed(t, f)>>, <<>>) : t \in ProfileTitles, f \in FieldLists }

\* parseProfileStats has been called with a reply of the bot
InitProfile ==
    /\ profMessage \in ProfileReplies
    /\ profPc = "called"
    /\ profStats = <<>>

\* The call returns
ParseProfile ==
    /\ profPc = "called"
    /\ profStats' = parseProfileStats(profMessage)
    /\ profPc' = "returned"
    /\ UNCHANGED <<profMessage, profRest>>

NextProfile == ParseProfile

----------------------------------------------------------------------------
(* Account validation (DiscordClient.validateAccount and its helpers) *)

RoleIds == {"r1", "r2", "s1", "s2"}

Configs ==
    [REQUIRED_ROLES : {{"r1"}, {"r1", "r2"}},
     SPECIAL_ROLES : {{"s1"}, {"s1", "s2"}},
     FALLBACK_CHANNEL_ID : BOOLEAN]

\* A probe: what executeWithRetry(executeSlashCommandInternal, 2) gave
Threw == [threw |-> TRUE, msg |-> <<>>]
Replied(m) == [threw |-> FALSE, msg |-> <<m>>]

\* executeWithRetry: the first attempt that does not throw decides; when
\* every attempt throws the last error is rethrown
RECURSIVE executeWithRetry(_)
executeWithRetry(attempts) ==
    IF Len(attempts) = 1 \/ ~Head(attempts).threw THEN Head(attempts)
    ELSE executeWithRetry(Tail(attempts))

\* The attempts a probe may see: the second one is made only after a throw
ProbeAttempts ==
    {<<Replied(m)>> : m \in Replies}
      \cup {<<Threw, Replied(m)>> : m \in Replies}
      \cup {<<Threw, Threw>>}

ValidatedAccount(roles, stats, status, channel) ==
    [roles |-> roles, stats |-> stats, status |-> status,
     executableChannel |-> channel]

performInitialValidation_eitherGate(guildOk, memberOk, userRoles) ==
    IF ~guildOk \/ ~memberOk THEN <<>>
    ELSE LET hasRequiredRoles == \A r \in config.REQUIRED_ROLES : r \in userRoles
             hasSpecialRole == \E r \in config.SPECIAL_ROLES : r \in userRoles
         IN IF ~hasRequiredRoles /\ ~hasSpecialRole THEN <<>> ELSE <<userRoles>>

\* <<>> for null, <<roles>> for the validated base account
performInitialValidation(guildOk, memberOk, userRoles) ==
    IF ~guildOk \/ ~memberOk THEN <<>>
    ELSE LET hasRequiredRoles == \A r \in config.REQUIRED_ROLES : r \in userRoles
             hasSpecialRole == \E r \in config.SPECIAL_ROLES : r \in userRoles
         IN IF ~hasRequiredRoles \/ ~hasSpecialRole THEN <<>> ELSE <<userRoles>>

checkFallbackChannelPermission_anyRole(fetched, granting, userRoles) ==
    /\ config.FALLBACK_CHANNEL_ID
    /\ fetched
    /\ \E r \in userRoles : r \in granting

\* fetched: the channel and member fetches succeeded and the channel is a
\* guild channel; granting: the roles whose permissions on the channel
\* include VIEW_CHANNEL
checkFallbackChannelPermission(fetched, granting, userRoles) ==
    /\ config.FALLBACK_CHANNEL_ID
    /\ fetched
    /\ \E r \in userRoles \cap config.SPECIAL_ROLES : r \in granting

processProbe_restrictedRejected(probe, roles, channel) ==
    IF probe.threw THEN <<>>
    ELSE LET stats == parseProfileStats(probe.msg[1]) IN
         IF stats # <<>>
         THEN <<ValidatedAccount(roles, stats[1], "confirmed", channel)>>
         ELSE <<>>

\* The account a /profile probe confirms in a channel: <<account>>, or <<>>
\* when the probe threw or its reply is neither restricted nor a profile
processProbe(probe, roles, channel) ==
    IF probe.threw THEN <<>>
    ELSE IF isAccessRestricted(probe.msg[1])
    THEN <<ValidatedAccount(roles, ZeroStats, "confirmed", channel)>>
    ELSE LET stats == parseProfileStats(probe.msg[1]) IN
         IF stats # <<>>
         THEN <<ValidatedAccount(roles, stats[1], "confirmed", channel)>>
         ELSE <<>>

PendingAccount(roles) == ValidatedAccount(roles, ZeroStats, "pending", "none")

NoResult == [kind |-> "none", val |-> <<>>]
NullResult == [kind |-> "null", val |-> <<>>]
AccountResult(acc) == [kind |-> "account", val |-> <<acc>>]
ReplyResult(m) == [kind |-> "reply", val |-> <<m>>]
ThrowsResult == [kind |-> "throws", val |-> <<>>]

validateFallbackResult_keepsPending(probe, roles) ==
    LET acc == processProbe(probe, roles, "fallback") IN
    IF acc # <<>> THEN AccountResult(acc[1]) ELSE AccountResult(PendingAccount(roles))

\* validateAccount after the fallback probe: a confirmed account, or null
\* ("All validation attempts failed - token will be discarded")
validateFallbackResult(probe, roles) ==
    LET acc == processProbe(probe, roles, "fallback") IN
    IF acc # <<>> THEN AccountResult(acc[1]) ELSE NullResult

\* revalidatePendingAccount after the fallback probe: null when the probe
\* threw, the promoted account, or the account unchanged
revalidateFallbackResult(probe, account) ==
    IF probe.threw THEN NullResult
    ELSE LET acc == processProbe(probe, account.roles, "fallback") IN
         IF acc # <<>> THEN AccountResult(acc[1]) ELSE AccountResult(account)

\* getChannelIdForAccount: <<>> when it throws
getChannelIdForAccount(account) ==
    IF account.executableChannel = "general" THEN <<"general">>
    ELSE IF account.executableChannel = "fallback" /\ config.FALLBACK_CHANNEL_ID
    THEN <<"fallback">>
    ELSE <<>>

----------------------------------------------------------------------------
(* One call of validateAccount, revalidatePendingAccount or                *)
(* executeSlashCommand, with the Client it creates                         *)

OpNames == {"validateAccount", "revalidatePendingAccount", "executeSlashCommand"}

ArgumentRoles == {{"r1", "r2", "s1"}, {"r1", "r2"}, {"r1", "s1", "s2"}}

\* The account arguments: pending accounts for the revalidation, accounts
\* of every stored shape for a command
Arguments(op) ==
    CASE op = "validateAccount" -> {<<>>}
      [] op = "revalidatePendingAccount" ->
            {<<PendingAccount(r)>> : r \in ArgumentRoles}
      [] OTHER ->
            {<<ValidatedAccount({"r1", "r2", "s1"}, ZeroStats, sh[1], sh[2])>> :
                sh \in StoredShapes}

NoInput == [gate |-> <<>>, general |-> <<>>, perm |-> <<>>, fallback |-> <<>>]

Gates ==
    {[guildOk |-> FALSE, memberOk |-> FALSE, userRoles |-> {}],
     [guildOk |-> TRUE, memberOk |-> FALSE, userRoles |-> {}]}
      \cup [guildOk : {TRUE}, memberOk : {TRUE}, userRoles : SUBSET RoleIds]

PermissionInputs ==
    {[fetched |-> FALSE, granting |-> {}]}
      \cup [fetched : {TRUE}, granting : SUBSET {"r1", "s1", "s2"}]

InitOp ==
    /\ config \in Configs
    /\ opName \in OpNames
    /\ opAccount \in Arguments(opName)
    /\ opPc = "idle"
    /\ client = "none"
    /\ login = "none"
    /\ loginTimer = "none"
    /\ opIn = NoInput
    /\ opResult = NoResult

\* finally { if (client.user) await client.destroy(); }
finally == client' = IF client = "loggedIn" THEN "destroyed" ELSE client

\* The call returns r (or throws, r = ThrowsResult) through its finally block
Return(r) ==
    /\ opResult' = r
    /\ opPc' = "returned"
    /\ finally

\* What the catch block of the call makes of an error
Caught ==
    CASE opName = "validateAccount" -> NullResult
      [] opName = "revalidatePendingAccount" -> AccountResult(opAccount[1])
      [] OTHER -> ThrowsResult

\* The call starts: new Client(), client.login(token), raced against the
\* LOGIN_TIMEOUT timer except in revalidatePendingAccount, which returns
\* at once when no fallback channel is configured
Call ==
    /\ opPc = "idle"
    /\ IF opName = "revalidatePendingAccount" /\ ~config.FALLBACK_CHANNEL_ID
       THEN /\ Return(AccountResult(opAccount[1]))
            /\ UNCHANGED <<login, loginTimer>>
       ELSE /\ client' = "created"
            /\ login' = "pending"
            /\ loginTimer' = IF opName = "revalidatePendingAccount" THEN "none"
                             ELSE "armed"
            /\ opPc' = "login"
            /\ UNCHANGED opResult
    /\ UNCHANGED <<config, opName, opAccount, opIn, opRest>>

\* client.login() completes: client.user is set, whether or not the call
\* still waits for it
LoginResolves ==
    /\ login = "pending"
    /\ login' = "resolved"
    /\ client' = "loggedIn"
    /\ opPc' = IF opPc = "login" THEN "session" ELSE opPc
    /\ UNCHANGED <<config, opName, opAccount, loginTimer, opIn, opResult,
                   opRest>>

\* client.login() fails
LoginRejects ==
    /\ login = "pending"
    /\ login' = "rejected"
    /\ IF opPc = "login" THEN Return(Caught)
       ELSE UNCHANGED <<opPc, opResult, client>>
    /\ UNCHANGED <<config, opName, opAccount, loginTimer, opIn,
                   opRest>>

\* The LOGIN_TIMEOUT timer, which nothing clears, expires: it rejects the
\* race when the login has not completed yet, and is without effect after
LoginTimeout ==
    /\ loginTimer = "armed"
    /\ loginTimer' = "fired"
    /\ IF opPc = "login" THEN Return(Caught)
       ELSE UNCHANGED <<opPc, opResult, client>>
    /\ UNCHANGED <<config, opName, opAccount, login, opIn, opRest>>

Continue(pc) == opPc' = pc /\ UNCHANGED <<opResult, client>>

\* validateAccount: performInitialValidation
InitialValidation ==
    /\ opName = "validateAccount" /\ opPc = "session"
    /\ \E g \in Gates :
          /\ opIn' = [opIn EXCEPT !.gate = <<g>>]
          /\ IF performInitialValidation(g.guildOk, g.memberOk, g.userRoles) = <<>>
             THEN Return(NullResult)
             ELSE Continue("general")
    /\ UNCHANGED <<config, opName, opAccount, login, loginTimer,
                   opRest>>

\* validateAccount: the /profile probe in the general channel, and the
\* check that a fallback channel is configured
GeneralProbe ==
    /\ opName = "validateAccount" /\ opPc = "general"
    /\ \E attempts \in ProbeAttempts :
          LET probe == executeWithRetry(attempts)
              roles == opIn.gate[1].userRoles
              acc == processProbe(probe, roles, "general")
          IN /\ opIn' = [opIn EXCEPT !.general = <<probe>>]
             /\ IF acc # <<>> THEN Return(AccountResult(acc[1]))
                ELSE IF ~config.FALLBACK_CHANNEL_ID
                THEN Return(AccountResult(PendingAccount(roles)))
                ELSE Continue("permission")
    /\ UNCHANGED <<config, opName, opAccount, login, loginTimer,
                   opRest>>

\* The roles of the account the call is about
CallerRoles ==
    IF opName = "validateAccount" THEN opIn.gate[1].userRoles
    ELSE opAccount[1].roles

\* validateAccount and revalidatePendingAccount: checkFallbackChannelPermission
PermissionCheck ==
    /\ \/ opName = "validateAccount" /\ opPc = "permission"
       \/ opName = "revalidatePendingAccount" /\ opPc = "session"
    /\ \E pi \in PermissionInputs :
          /\ opIn' = [opIn EXCEPT !.perm = <<pi>>]
          /\ IF checkFallbackChannelPermission(pi.fetched, pi.granting, CallerRoles)
             THEN Continue("fallback")
             ELSE IF opName = "validateAccount"
                  THEN Return(AccountResult(PendingAccount(CallerRoles)))
                  ELSE Return(AccountResult(opAccount[1]))
    /\ UNCHANGED <<config, opName, opAccount, login, loginTimer,
                   opRest>>

\* validateAccount and revalidatePendingAccount: the /profile probe in the
\* fallback channel
FallbackProbe ==
    /\ opName \in {"validateAccount", "revalidatePendingAccount"}
    /\ opPc = "fallback"
    /\ \E attempts \in ProbeAttempts :
          LET probe == executeWithRetry(attempts) IN
          /\ opIn' = [opIn EXCEPT !.fallback = <<probe>>]
          /\ IF opName = "validateAccount"
             THEN Return(validateFallbackResult(probe, CallerRoles))
             ELSE Return(revalidateFallbackResult(probe, opAccount[1]))
    /\ UNCHANGED <<config, opName, opAccount, login, loginTimer,
                   opRest>>

\* executeSlashCommand: getChannelIdForAccount, executeSlashCommandInternal
ExecuteCommand ==
    /\ opName = "executeSlashCommand" /\ opPc = "session"
    /\ IF getChannelIdForAccount(opAccount[1]) = <<>>
       THEN Return(ThrowsResult) /\ UNCHANGED opIn
       ELSE \E probe \in {Threw} \cup {Replied(m) : m \in Replies} :
               /\ opIn' = [opIn EXCEPT !.general = <<probe>>]
               /\ IF probe.threw THEN Return(ThrowsResult)
                  ELSE Return(ReplyResult(probe.msg[1]))
    /\ UNCHANGED <<config, opName, opAccount, login, loginTimer,
                   opRest>>

NextOp ==
    \/ Call
    \/ LoginResolves
    \/ LoginRejects
    \/ LoginTimeout
    \/ InitialValidation
    \/ GeneralProbe
    \/ PermissionCheck
    \/ FallbackProbe
    \/ ExecuteCommand

----------------------------------------------------------------------------
(* handlePendingAccounts, with revalidatePendingAccount as the monolithic   *)
(* DiscordClient implements it and as the DiscordClient wrapper over        *)
(* DiscordClientManager implements it                                       *)

ClientImpls == {"DiscordClient", "DiscordClientManager"}

RevalidationRoles == {{"r1", "r2", "s1"}, {"r1", "r2"}}

RevalidationPermissions ==
    {[fetched |-> FALSE, granting |-> {}],
     [fetched |-> TRUE, granting |-> {}],
     [fetched |-> TRUE, granting |-> {"r1"}],
     [fetched |-> TRUE, granting |-> {"s1"}]}

\* What the platform answers to one revalidation: whether the login
\* succeeds, the roles kept with the account, the permissions on the
\* fallback channel and the outcome of the /profile probe. The probe is
\* only made after a login and a granted permission
RevalidationInputs ==
    LET failed == [loginOk |-> FALSE, roles |-> {"r1", "r2"},
                   perm |-> [fetched |-> FALSE, granting |-> {}],
                   probe |-> Threw]
        all == [loginOk : {TRUE}, roles : RevalidationRoles,
                perm : RevalidationPermissions,
                probe : {executeWithRetry(a) : a \in ProbeAttempts}]
    IN {failed} \cup
       {in \in all :
           \/ checkFallbackChannelPermission(in.perm.fetched, in.perm.granting,
                                             in.roles)
           \/ in.probe = Threw}

DiscordClient_revalidatePendingAccount_noPermissionNull(account, in) ==
    IF ~config.FALLBACK_CHANNEL_ID THEN AccountResult(account)
    ELSE IF ~in.loginOk THEN AccountResult(account)
    ELSE IF ~checkFallbackChannelPermission(in.perm.fetched, in.perm.granting,
                                            account.roles)
    THEN NullResult
    ELSE revalidateFallbackResult(in.probe, account)

\* DiscordClient.revalidatePendingAccount of the monolithic client
DiscordClient_revalidatePendingAccount(account, in) ==
    IF ~config.FALLBACK_CHANNEL_ID THEN AccountResult(account)
    ELSE IF ~in.loginOk THEN AccountResult(account)
    ELSE IF ~checkFallbackChannelPermission(in.perm.fetched, in.perm.granting,
                                            account.roles)
    THEN AccountResult(account)
    ELSE revalidateFallbackResult(in.probe, account)

\* DiscordClientManager.parseProfileStats: no restriction test of its own
managerParseProfileStats(message) ==
    IF message.embeds # <<>> /\ Includes(message.embeds[1].title, <<"Profile">>)
    THEN LET fields == message.embeds[1].fields IN
         << [played |-> extractNumberFromField(fields, "games?\\s+played"),
             wins |-> extractNumberFromField(fields, "wins?"),
             winRate |-> extractNumberFromField(fields, "win\\s+rate"),
             badgesEarned |-> extractNumberFromField(fields, "badges?")] >>
    ELSE <<>>

\* DiscordClientManager.processChannelTestResponse: restricted by the embed
\* title alone; <<>> for null
processChannelTestResponse(response, roles, channelType) ==
    IF response.embeds # <<>>
         /\ Includes(response.embeds[1].title, <<"Access", "Restricted">>)
    THEN <<ValidatedAccount(roles, ZeroStats, "confirmed", channelType)>>
    ELSE LET stats == managerParseProfileStats(response) IN
         IF stats # <<>>
         THEN <<ValidatedAccount(roles, stats[1], "confirmed", channelType)>>
         ELSE <<>>

\* ClientOperationResult: data is <<>> for null
Success(data) == [success |-> TRUE, data |-> data]
Failure == [success |-> FALSE, data |-> <<>>]

\* DiscordClientManager.revalidatePendingAccount through withClient
DiscordClientManager_revalidatePendingAccount(account, in) ==
    IF ~config.FALLBACK_CHANNEL_ID THEN Success(<<account>>)
    ELSE IF ~in.loginOk THEN Failure
    ELSE IF ~checkFallbackChannelPermission(in.perm.fetched, in.perm.granting,
                                            account.roles)
    THEN Success(<<account>>)
    ELSE IF in.probe.threw THEN Success(<<>>)
    ELSE Success(processChannelTestResponse(in.probe.msg[1], account.roles,
                                            "fallback"))

\* DiscordClient.revalidatePendingAccount of the wrapper:
\* if (!result.success) return account; return result.data || account
Wrapper_revalidatePendingAccount(account, result) ==
    IF ~result.success THEN AccountResult(account)
    ELSE IF result.data = <<>> THEN AccountResult(account)
    ELSE AccountResult(result.data[1])

revalidatePendingAccount(account, in) ==
    IF clientImpl = "DiscordClient"
    THEN DiscordClient_revalidatePendingAccount(account, in)
    ELSE Wrapper_revalidatePendingAccount(account,
             DiscordClientManager_revalidatePendingAccount(account, in))

handleRevalidated_ignoresPromotion(s, id, revalidatedAccount) ==
    IF revalidatedAccount.kind = "null" THEN removeAccount(s, id)
    ELSE s

\* The store after the body of the loop of handlePendingAccounts
handleRevalidated(s, id, revalidatedAccount) ==
    IF revalidatedAccount.kind = "null" THEN removeAccount(s, id)
    ELSE IF revalidatedAccount.val[1].status = "confirmed"
    THEN addOrUpdateAccount(s,
             Account(id, "confirmed", revalidatedAccount.val[1].executableChannel))
    ELSE s

InitPending ==
    /\ clientImpl \in ClientImpls
    /\ pStore \in StoresFrom(1)
    /\ pStart = pStore
    /\ pQueue = <<>>
    /\ pPc = "idle"
    /\ pModified = FALSE
    /\ pLog = <<>>

\* handlePendingAccounts is entered: getAccountsByStatus('pending')
HandlePendingAccounts ==
    /\ pPc \in {"idle", "done"}
    /\ pQueue' = getAccountsByStatus(pStore, "pending")
    /\ pPc' = IF pQueue' = <<>> THEN "done" ELSE "loop"
    /\ pModified' = FALSE
    /\ pLog' = <<>>
    /\ UNCHANGED <<clientImpl, pStore, pStart, pendRest>>

\* One iteration of the loop: the account is revalidated and the store
\* follows what came back
Revalidate ==
    /\ pPc = "loop"
    /\ \E in \in RevalidationInputs :
          LET account == Head(pQueue)
              revalidatedAccount ==
                  revalidatePendingAccount(PendingAccount(in.roles), in)
          IN /\ pStore' = handleRevalidated(pStore, account.id, revalidatedAccount)
             /\ pModified' = (\/ pModified
                               \/ revalidatedAccount.kind = "null"
                               \/ revalidatedAccount.val[1].status = "confirmed")
             /\ pLog' = Append(pLog, [id |-> account.id, in |-> in,
                                      before |-> pStore,
                                      returned |-> revalidatedAccount])
    /\ pQueue' = Tail(pQueue)
    /\ pPc' = IF pQueue' = <<>> THEN "done" ELSE "loop"
    /\ UNCHANGED <<clientImpl, pStart, pendRest>>

NextPending == HandlePendingAccounts \/ Revalidate

\* The account a /profile probe confirms, in the client in use
probeAccount(probe, roles, channel) ==
    IF clientImpl = "DiscordClient" THEN processProbe(probe, roles, channel)
    ELSE IF probe.threw THEN <<>>
    ELSE processChannelTestResponse(probe.msg[1], roles, channel)

validateAccount_pendingKeepsChannel(in) ==
    IF ~in.loginOk THEN NullResult
    ELSE LET base == performInitialValidation(in.guildOk, in.memberOk, in.roles) IN
         IF base = <<>> THEN NullResult
         ELSE LET general == probeAccount(in.general, base[1], "general") IN
              IF general # <<>> THEN AccountResult(general[1])
              ELSE IF ~config.FALLBACK_CHANNEL_ID
              THEN AccountResult(PendingAccount(base[1]))
              ELSE IF ~checkFallbackChannelPermission(in.perm.fetched,
                                                      in.perm.granting, base[1])
              THEN AccountResult(ValidatedAccount(base[1], ZeroStats, "pending",
                                                  "fallback"))
              ELSE LET fallback == probeAccount(in.fallback, base[1], "fallback") IN
                   IF fallback # <<>> THEN AccountResult(fallback[1]) ELSE NullResult

\* validateAccount as a whole: login, role gates, the general probe, the
\* fallback permission and the fallback probe
validateAccount(in) ==
    IF ~in.loginOk THEN NullResult
    ELSE LET base == performInitialValidation(in.guildOk, in.memberOk, in.roles) IN
         IF base = <<>> THEN NullResult
         ELSE LET general == probeAccount(in.general, base[1], "general") IN
              IF general # <<>> THEN AccountResult(general[1])
              ELSE IF ~config.FALLBACK_CHANNEL_ID
              THEN AccountResult(PendingAccount(base[1]))
              ELSE IF ~checkFallbackChannelPermission(in.perm.fetched,
                                                      in.perm.granting, base[1])
              THEN AccountResult(PendingAccount(base[1]))
              ELSE LET fallback == probeAccount(in.fallback, base[1], "fallback") IN
                   IF fallback # <<>> THEN AccountResult(fallback[1]) ELSE NullResult

ValidationRoles == {{"r1", "s1"}, {"r1", "r2"}}

ProbeResults == {executeWithRetry(a) : a \in ProbeAttempts}

\* What the platform answers to the validation of one token
ValidationInputs ==
    {[loginOk |-> FALSE, guildOk |-> FALSE, memberOk |-> FALSE, roles |-> {"r1"},
      general |-> Threw, perm |-> [fetched |-> FALSE, granting |-> {}],
      fallback |-> Threw]}
      \cup [loginOk : {TRUE}, guildOk : {TRUE}, memberOk : BOOLEAN,
            roles : ValidationRoles, general : ProbeResults,
            perm : RevalidationPermissions, fallback : ProbeResults]

\* The token lists collected at startup: one token per account id, a token
\* possibly given twice
TokenLists ==
    {<<>>} \cup {<<i>> : i \in AccountIds}
      \cup {<<i, j>> : i, j \in AccountIds}

\* The engine starts without an accounts file and with the tokens collected
InitIntake ==
    /\ clientImpl \in ClientImpls
    /\ pStore = <<>>
    /\ pStart = <<>>
    /\ pQueue \in TokenLists
    /\ pPc = "tokens"
    /\ pModified = FALSE
    /\ pLog = <<>>

\* One iteration of the loop of processTokens: a token already stored is
\* skipped, a validated account is stored, a null result discards the token
ProcessToken ==
    /\ pPc = "tokens" /\ pQueue # <<>>
    /\ LET token == Head(pQueue) IN
       IF \E k \in 1..Len(pStore) : pStore[k].id = token
       THEN UNCHANGED <<pStore, pLog>>
       ELSE \E in \in ValidationInputs :
               LET accountData == validateAccount(in) IN
               /\ pStore' = IF accountData.kind = "null" THEN pStore
                             ELSE addOrUpdateAccount(pStore,
                                      Account(token, accountData.val[1].status,
                                              accountData.val[1].executableChannel))
               /\ pLog' = Append(pLog, [id |-> token, returned |-> accountData])
    /\ pQueue' = Tail(pQueue)
    /\ UNCHANGED <<clientImpl, pStart, pPc, pModified, pendRest>>

\* processTokens returns; the cycles begin
TokensProcessed ==
    /\ pPc = "tokens" /\ pQueue = <<>>
    /\ pPc' = "idle"
    /\ pLog' = <<>>
    /\ UNCHANGED <<clientImpl, pStore, pStart, pQueue, pModified, pendRest>>

NextIntake == ProcessToken \/ TokensProcessed \/ HandlePendingAccounts \/ Revalidate

----------------------------------------------------------------------------
(* Failure tracking: markAccountFailure and resetAccountFailures, which    *)
(* execute8QueensCommands and executeProfileCommands call                   *)

\* The store with every account id, as processTokens leaves it
FullStore == [i \in AccountIds |-> Account(i, "confirmed", "general")]

HasAccount(s, accountId) == \E k \in 1..Len(s) : s[k].id = accountId

\* markAccountFailure(accountId, reason): the counter of a stored account
\* goes up by one and the account is removed when it reaches the threshold
markAccountFailure(m, accountId) ==
    IF ~HasAccount(m.accounts, accountId) THEN m
    ELSE LET n == m.failureCount[accountId] + 1 IN
         IF n >= FailureThreshold
         THEN [accounts |-> removeAccount(m.accounts, accountId),
               failureCount |-> [m.failureCount EXCEPT ![accountId] = 0]]
         ELSE [m EXCEPT !.failureCount[accountId] = n]

\* resetAccountFailures(accountId)
resetAccountFailures(m, accountId) ==
    IF ~HasAccount(m.accounts, accountId) THEN m
    ELSE [m EXCEPT !.failureCount[accountId] = 0]

\* What execute8QueensCommands does with the result of executeGameSequence
afterGameSequence(m, accountId, result) ==
    CASE result = "success" -> resetAccountFailures(m, accountId)
      [] result = "rateLimited" -> resetAccountFailures(m, accountId)
      [] result = "accessRestricted" -> markAccountFailure(m, accountId)
      [] OTHER -> markAccountFailure(m, accountId)

InitFailures ==
    /\ fManager = [accounts |-> FullStore,
                   failureCount |-> [i \in AccountIds |-> 0]]
    /\ fEvents = [i \in AccountIds |-> <<>>]

RECURSIVE TotalEvents(_)
TotalEvents(i) == IF i = 0 THEN 0 ELSE Len(fEvents[i]) + TotalEvents(i - 1)

\* One iteration of the loop of execute8QueensCommands for an account
GameSequenceEnds(accountId, result) ==
    /\ TotalEvents(MaxAccounts) < MaxEvents
    /\ fManager' = afterGameSequence(fManager, accountId, result)
    /\ fEvents' = [fEvents EXCEPT ![accountId] =
          Append(@, IF result \in {"success", "rateLimited"}
                    THEN "resetAccountFailures" ELSE "markAccountFailure")]
    /\ UNCHANGED failRest

NextFailures ==
    \E accountId \in AccountIds, result \in GameResults :
        GameSequenceEnds(accountId, result)

----------------------------------------------------------------------------
(* The account store of AccountManager and the accounts file *)

Stats1 == [played |-> 1, wins |-> 1, winRate |-> 100, badgesEarned |-> 0]

\* The fields of AccountData the store operations read or write
StoredAccount(i, status, stats) == [id |-> i, status |-> status, stats |-> stats]

\* The accounts validateAccount hands to addOrUpdateAccount
AccountDatas ==
    {StoredAccount(i, st, stats) :
        i \in AccountIds, st \in {"pending", "confirmed"}, stats \in {ZeroStats, Stats1}}

\* validateAccountData does not throw
validateAccountData(accountData) ==
    accountData.status \in {"confirmed", "pending"}

\* loadAccounts: no file, or the accounts of the file that validate
loadAccounts(file) ==
    IF file = <<>> THEN <<>> ELSE SelectSeq(file[1], validateAccountData)

\* The index of the account find()/findIndex() returns, 0 when there is none
FindIndex(s, accountId) ==
    IF HasAccount(s, accountId)
    THEN CHOOSE k \in 1..Len(s) :
            s[k].id = accountId /\ \A j \in 1..(k - 1) : s[j].id # accountId
    ELSE 0

updateAccountStatus(s, accountId, status) ==
    LET k == FindIndex(s, accountId) IN
    IF k = 0 THEN s ELSE [s EXCEPT ![k].status = status]

updateAccountStats(s, accountId, stats) ==
    LET k == FindIndex(s, accountId) IN
    IF k = 0 THEN s ELSE [s EXCEPT ![k].stats = stats]

\* A first start: no accounts file
InitStore ==
    /\ aFile = <<>>
    /\ aStore = loadAccounts(aFile)
    /\ aLoaded = FALSE

AddOrUpdateAccount(accountData) ==
    /\ validateAccountData(accountData)
    /\ aStore' = addOrUpdateAccount(aStore, accountData)
    /\ UNCHANGED <<aFile, aLoaded, storeRest>>

RemoveAccount(accountId) ==
    /\ aStore' = removeAccount(aStore, accountId)
    /\ UNCHANGED <<aFile, aLoaded, storeRest>>

UpdateAccountStatus(accountId, status) ==
    /\ aStore' = updateAccountStatus(aStore, accountId, status)
    /\ UNCHANGED <<aFile, aLoaded, storeRest>>

UpdateAccountStats(accountId, stats) ==
    /\ aStore' = updateAccountStats(aStore, accountId, stats)
    /\ UNCHANGED <<aFile, aLoaded, storeRest>>

\* saveAccounts writes the store to the file
SaveAccounts ==
    /\ aFile' = <<aStore>>
    /\ UNCHANGED <<aStore, aLoaded, storeRest>>

\* The process is started again: the constructor calls loadAccounts
Restart ==
    /\ aStore' = loadAccounts(aFile)
    /\ aLoaded' = (aFile # <<>>)
    /\ UNCHANGED <<aFile, storeRest>>

NextStore ==
    \/ \E accountData \in AccountDatas : AddOrUpdateAccount(accountData)
    \/ \E accountId \in AccountIds : RemoveAccount(accountId)
    \/ \E accountId \in AccountIds, status \in {"pending", "confirmed"} :
          UpdateAccountStatus(accountId, status)
    \/ \E accountId \in AccountIds, stats \in {ZeroStats, Stats1} :
          UpdateAccountStats(accountId, stats)
    \/ SaveAccounts
    \/ Restart

----------------------------------------------------------------------------
(* GameAPIClient: responses, URLs and the helpers of pollUntilComplete.    *)
(* Text is a sequence of tokens cut so that every phrase the code tests    *)
(* with includes() is a run of tokens                                      *)

\* A URL: origin <<>> for a relative reference
Url(origin, path) == [origin |-> origin, path |-> path]

API_BASE_URL == "base"

resolveUrl_asIs(location, base) == location

\* new URL(location, config.API_BASE_URL).href
resolveUrl(location, base) ==
    IF location.origin = <<>> THEN Url(<<base>>, location.path) ELSE location

Html(text, code, links) == [text |-> text, code |-> code, links |-> links]

FailureText == <<"Proof", "generation", "failed", "-", "no", "blob", "ID", "available">>
WaitingText == <<"Generating", "zero-knowledge", "proof">>
CommandCode == <<"soundness-cli", "send", "--key-name=", "&quot;", "k", "&quot;">>
VictoryLink == Url(<<>>, <<"r", "victory", "g1">>)

Bodies ==
    { Html(<<>>, <<>>, <<>>),
      Html(WaitingText, <<>>, <<>>),
      Html(FailureText, <<>>, <<>>),
      Html(<<>>, <<CommandCode>>, <<>>),
      Html(FailureText, <<CommandCode>>, <<>>),
      Html(<<>>, <<<<"npm", "install">>>>, <<>>),
      Html(<<>>, <<<<"npm", "install">>, CommandCode>>, <<>>),
      Html(<<"Victory">>, <<>>, <<VictoryLink>>) }

\* A response axios resolves with: validateStatus accepts 200..499
Response(status, statusText, location, data) ==
    [thrown |-> FALSE, status |-> <<status>>, statusText |-> statusText,
     location |-> location, data |-> data]

\* An exception makeRequest rejects with; status <<>> when it carries none
Thrown(message, status) ==
    [thrown |-> TRUE, status |-> status, message |-> message]

NoBody == Html(<<>>, <<>>, <<>>)

Responses ==
    {Response(200, <<"OK">>, <<>>, b) : b \in Bodies}
      \cup { Response(302, <<"Found">>, <<VictoryLink>>, NoBody),
             Response(302, <<"Found">>,
                      <<Url(<<"elsewhere">>, <<"r", "victory", "g1">>)>>, NoBody),
             Response(302, <<"Found">>, <<>>, NoBody),
             Response(301, <<"Moved", "Permanently">>, <<VictoryLink>>, NoBody),
             Response(404, <<"Not", "Found">>, <<>>, NoBody),
             Response(400, <<"Bad", "Request">>, <<>>, NoBody),
             Response(429, <<"Too", "Many", "Requests">>, <<>>, NoBody) }

Exceptions ==
    { Thrown(<<"Request", "failed", "with", "status", "code", "500">>, <<500>>),
      Thrown(<<"Request", "failed", "with", "status", "code", "503">>, <<503>>),
      Thrown(<<"timeout", "of", "30000ms", "exceeded">>, <<>>),
      Thrown(<<"read", "ECONNRESET">>, <<>>),
      Thrown(<<"getaddrinfo", "ENOTFOUND", "fun.soundness.xyz">>, <<>>),
      Thrown(<<"Parse", "Error:", "Expected", "HTTP", "/">>, <<>>),
      Thrown(<<"socket", "hang", "up">>, <<>>) }

StatusWord(status) ==
    CASE status = 400 -> "400" [] status = 429 -> "429" [] OTHER -> "4xx"

\* What a step of the loop body comes to
Continues == [kind |-> "continue", val |-> <<>>]
Returns(result) == [kind |-> "result", val |-> <<result>>]
Throws(message) == [kind |-> "error", val |-> <<message>>]
TimesOut == [kind |-> "timeout", val |-> <<>>]
NoOutcome == [kind |-> "none", val |-> <<>>]

\* handleStatusCode
handleStatusCode(response, type) ==
    IF response.status[1] = 404
    THEN Throws(IF type = "victory" THEN <<"Game", "not", "found">>
                ELSE <<"Victory", "page", "not", "found">>)
    ELSE IF response.status[1] >= 400
    THEN Throws(<<"HTTP", StatusWord(response.status[1])>> \o response.statusText)
    ELSE IF response.status[1] = 302 /\ response.location # <<>>
    THEN Returns(resolveUrl(response.location[1], API_BASE_URL))
    ELSE Continues

\* checkFailureStates throws
checkFailureStates(html) == Includes(html.text, FailureText)

isWaitingState(html) == Includes(html.text, WaitingText)

\* The replacements of extractCLICommand on the content of the code block
cleanToken(t) ==
    CASE t = "&quot;" -> "\"" [] t = "&amp;" -> "&"
      [] t = "&lt;" -> "<" [] t = "&gt;" -> ">" [] OTHER -> t

\* extractCLICommand: <<>> for null
extractCLICommand(html) ==
    IF html.code = <<>> THEN <<>>
    ELSE IF ~Includes(html.code[1], <<"soundness-cli", "send">>) THEN <<>>
    ELSE << [k \in 1..Len(html.code[1]) |-> cleanToken(html.code[1][k])] >>

\* processVictoryResponse never has a result
processVictoryResponse(html) == Continues

processCLIResponse(html) ==
    LET cliCommand == extractCLICommand(html) IN
    IF cliCommand # <<>> THEN Returns(cliCommand[1]) ELSE Continues

handlePollingError_ignoresHttp(errorMessage) ==
    \/ Includes(errorMessage, <<"not", "found">>)
    \/ Includes(errorMessage, <<"failed">>)

\* handlePollingError rethrows
handlePollingError(errorMessage) ==
    \/ Includes(errorMessage, <<"not", "found">>)
    \/ Includes(errorMessage, <<"failed">>)
    \/ Includes(errorMessage, <<"HTTP">>)

\* The catch block of the loop: rethrow or swallow
catch(errorMessage) ==
    IF handlePollingError(errorMessage) THEN Throws(errorMessage) ELSE Continues

processResponse(type, html) ==
    IF type = "victory" THEN processVictoryResponse(html) ELSE processCLIResponse(html)

handleOk_commandFirst(type, html) ==
    IF processResponse(type, html).kind = "result" THEN processResponse(type, html)
    ELSE IF type = "cli" /\ checkFailureStates(html) THEN catch(FailureText)
    ELSE Continues

\* The "Handle 200 OK response" block
handleOk(type, html) ==
    IF type = "cli" /\ checkFailureStates(html) THEN catch(FailureText)
    ELSE processResponse(type, html)

\* The try/catch of one iteration, given what makeRequest came to
loopBody(r, type) ==
    IF r.thrown THEN catch(r.message)
    ELSE LET statusResult == handleStatusCode(r, type) IN
         IF statusResult.kind = "error" THEN catch(statusResult.val[1])
         ELSE IF statusResult.kind = "result" THEN statusResult
         ELSE IF r.status[1] = 200 THEN handleOk(type, r.data)
         ELSE Continues

nextAttempt_forgotten(n) == n

\* attemptCount++
nextAttempt(n) == n + 1

PollTypes == {"victory", "cli"}

makeRequest_alwaysGet(type) == "GET"

\* The makeRequest callbacks: axiosInstance.post('/api/game_completed', ...)
\* in submitGameCompletion, axiosInstance.get(relativePath) in pollForCLICommand
makeRequest(type) == IF type = "victory" THEN "POST" ELSE "GET"

InitPoll ==
    /\ pollType \in PollTypes
    /\ attemptCount = 0
    /\ pollPc = "loop"
    /\ pollResponse = <<>>
    /\ pollRequests = 0
    /\ pollPosts = 0
    /\ pollDelays = 0
    /\ pollOutcome = NoOutcome

\* while (attemptCount < maxAttempts) { attemptCount++; ... makeRequest()
SendRequest ==
    /\ pollPc = "loop"
    /\ attemptCount < maxAttempts
    /\ attemptCount' = nextAttempt(attemptCount)
    /\ pollRequests' = pollRequests + 1
    /\ pollPosts' = pollPosts + (IF makeRequest(pollType) = "POST" THEN 1 ELSE 0)
    /\ pollPc' = "request"
    /\ UNCHANGED <<pollType, pollResponse, pollDelays, pollOutcome, pollRest>>

\* makeRequest settles and the rest of the loop body runs
RequestSettles(r) ==
    /\ pollPc = "request"
    /\ pollResponse' = <<r>>
    /\ LET step == loopBody(r, pollType) IN
       IF step.kind = "continue"
       THEN /\ pollPc' = "delay"
            /\ UNCHANGED pollOutcome
       ELSE /\ pollPc' = "done"
            /\ pollOutcome' = step
    /\ UNCHANGED <<pollType, attemptCount, pollRequests, pollPosts, pollDelays,
                   pollRest>>

\* await this.delay(5000) is over
DelayElapses ==
    /\ pollPc = "delay"
    /\ pollDelays' = pollDelays + 1
    /\ pollResponse' = <<>>
    /\ pollPc' = "loop"
    /\ UNCHANGED <<pollType, attemptCount, pollRequests, pollPosts, pollOutcome,
                   pollRest>>

\* The loop is left: throw new Error(`${errorName} timeout after ...`)
AttemptsExhausted ==
    /\ pollPc = "loop"
    /\ ~(attemptCount < maxAttempts)
    /\ pollPc' = "done"
    /\ pollOutcome' = TimesOut
    /\ UNCHANGED <<pollType, attemptCount, pollResponse, pollRequests,
                   pollPosts, pollDelays, pollRest>>

NextPoll ==
    \/ SendRequest
    \/ \E r \in Responses \cup Exceptions : RequestSettles(r)
    \/ DelayElapses
    \/ AttemptsExhausted

----------------------------------------------------------------------------
(* Utils.parseCommand. A string is a sequence of characters; a run of      *)
(* ordinary characters may stand as one element                            *)

Space == " "
DoubleQuote == "\""
SingleQuote == "'"

RECURSIVE trimStart(_)
trimStart(str) ==
    IF str # <<>> /\ Head(str) = Space THEN trimStart(Tail(str)) ELSE str

RECURSIVE trimEnd(_)
trimEnd(str) ==
    IF str # <<>> /\ str[Len(str)] = Space
    THEN trimEnd(SubSeq(str, 1, Len(str) - 1)) ELSE str

\* String.prototype.trim
trim(str) == trimEnd(trimStart(str))

ParseStart == [args |-> <<>>, current |-> <<>>, inQuotes |-> FALSE, quoteChar |-> <<>>]

\* The body of the for loop for one character
parseChar(st, char) ==
    IF char \in {DoubleQuote, SingleQuote} /\ ~st.inQuotes
    THEN [st EXCEPT !.inQuotes = TRUE, !.quoteChar = <<char>>]
    ELSE IF <<char>> = st.quoteChar /\ st.inQuotes
    THEN [st EXCEPT !.inQuotes = FALSE, !.quoteChar = <<>>]
    ELSE IF char = Space /\ ~st.inQuotes
    THEN IF trim(st.current) # <<>>
         THEN [st EXCEPT !.args = Append(st.args, trim(st.current)),
                         !.current = <<>>]
         ELSE st
    ELSE [st EXCEPT !.current = Append(st.current, char)]

RECURSIVE parseLoop(_, _)
parseLoop(st, str) ==
    IF str = <<>> THEN st ELSE parseLoop(parseChar(st, Head(str)), Tail(str))

\* Utils.parseCommand
parseCommand(str) ==
    LET st == parseLoop(ParseStart, str) IN
    IF trim(st.current) # <<>> THEN Append(st.args, trim(st.current)) ELSE st.args

Chars == {Space, DoubleQuote, SingleQuote, "a"}

ExampleCommand ==
    <<"soundness-cli", Space, "send", Space, "--key-name=", DoubleQuote, "foo",
      Space, "bar", DoubleQuote, Space, "--x=1">>

CommandStrings ==
    UNION {[1..n -> Chars] : n \in 0..MaxLen} \cup {ExampleCommand}

InitParse ==
    /\ commandString \in CommandStrings
    /\ parsedArgs = <<>>

ParseCommand ==
    /\ parsedArgs = <<>>
    /\ parsedArgs' = <<parseCommand(commandString)>>
    /\ UNCHANGED <<commandString, parseRest>>

NextParse == ParseCommand

----------------------------------------------------------------------------
(* CLIExecutor.executeCommand. Output is a sequence of pieces of text cut  *)
(* so that the prompt is a run of two pieces and a data event may end      *)
(* between them                                                            *)

OutputPieces == {"Enter password to decrypt", " the secret key:", "Status: ok"}

toLowerCase(piece) ==
    IF piece = "Enter password to decrypt" THEN "enter password to decrypt"
    ELSE IF piece = "Status: ok" THEN "status: ok"
    ELSE piece

LowerCase(output) == [k \in 1..Len(output) |-> toLowerCase(output[k])]

\* 'enter password to decrypt the secret key:'
Prompt == <<"enter password to decrypt", " the secret key:">>

DataChunks == UNION {[1..n -> OutputPieces] : n \in 1..MaxChunk}

hasPrompt_never(output) == FALSE

\* output.toLowerCase().includes('enter password to decrypt the secret key:')
hasPrompt(output) == Includes(LowerCase(output), Prompt)

ExecPending == [kind |-> "pending", message |-> <<>>]
ExecResolved == [kind |-> "resolved", message |-> <<>>]
ExecRejected(message) == [kind |-> "rejected", message |-> <<message>>]

\* resolve()/reject() of the promise: only the first call settles it
settleExec(outcome) ==
    /\ execSettleCalls' = execSettleCalls + 1
    /\ execOutcome' = IF execOutcome = ExecPending THEN outcome ELSE execOutcome

exitSucceeds_always(exitCode) == TRUE

\* exitCode === 0
exitSucceeds(exitCode) == exitCode = 0

Commands == {<<>>, <<Space>>, <<"soundness-cli", Space, "send">>}

InitExec ==
    /\ command \in Commands
    /\ ptyProcess = "none"
    /\ fullOutput = <<>>
    /\ passwordSent = FALSE
    /\ ptyWrites = 0
    /\ isCompleted = FALSE
    /\ timeout = "none"
    /\ exitEvent = <<>>
    /\ execOutcome = ExecPending
    /\ execSettleCalls = 0

\* executeCommand up to the return of pty.spawn and setTimeout
SpawnCommand ==
    /\ ptyProcess = "none" /\ execSettleCalls = 0
    /\ IF parseCommand(command) = <<>>
       THEN /\ settleExec(ExecRejected("No command found in CLI command string"))
            /\ UNCHANGED <<ptyProcess, timeout>>
       ELSE /\ ptyProcess' = "running"
            /\ timeout' = "armed"
            /\ UNCHANGED <<execOutcome, execSettleCalls>>
    /\ UNCHANGED <<command, fullOutput, passwordSent, ptyWrites, isCompleted,
                   exitEvent, execRest>>

\* ptyProcess.onData(data => ...)
OnData(data) ==
    /\ ptyProcess \in {"running", "killed"}
    /\ Len(fullOutput) + Len(data) <= MaxOutput
    /\ fullOutput' = fullOutput \o data
    /\ IF hasPrompt(data) /\ ~passwordSent
       THEN /\ passwordSent' = TRUE
            /\ ptyWrites' = ptyWrites + 1
       ELSE UNCHANGED <<passwordSent, ptyWrites>>
    /\ UNCHANGED <<command, ptyProcess, isCompleted, timeout, exitEvent,
                   execOutcome, execSettleCalls, execRest>>

\* ptyProcess.onExit(({ exitCode, signal }) => ...)
OnExit(exitCode, signal) ==
    /\ ptyProcess \in {"running", "killed"}
    /\ (signal # <<>>) <=> ptyProcess = "killed"
    /\ ptyProcess' = "exited"
    /\ exitEvent' = <<[exitCode |-> exitCode, signal |-> signal]>>
    /\ isCompleted' = TRUE
    /\ timeout' = IF timeout = "armed" THEN "cleared" ELSE timeout
    /\ IF exitSucceeds(exitCode)
       THEN settleExec(ExecResolved)
       ELSE settleExec(ExecRejected("CLI execution failed"))
    /\ UNCHANGED <<command, fullOutput, passwordSent, ptyWrites, execRest>>

\* The callback of setTimeout(..., 60000)
WatchdogFires ==
    /\ timeout = "armed"
    /\ timeout' = "fired"
    /\ IF ~isCompleted
       THEN /\ ptyProcess' = "killed"
            /\ settleExec(ExecRejected("CLI command execution timeout (60s)"))
       ELSE UNCHANGED <<ptyProcess, execOutcome, execSettleCalls>>
    /\ UNCHANGED <<command, fullOutput, passwordSent, ptyWrites, isCompleted,
                   exitEvent, execRest>>

NextExec ==
    \/ SpawnCommand
    \/ \E data \in DataChunks : OnData(data)
    \/ \E exitCode \in {0, 1}, signal \in {<<>>, <<1>>} : OnExit(exitCode, signal)
    \/ WatchdogFires

----------------------------------------------------------------------------
(* Response classifier: MessageAnalyzer.analyze, and the methods of the    *)
(* same names in DiscordClient.ts                                          *)

TooManyGames == <<"too", "many", "games", "recently">>
Wait24Hours == <<"wait", "24", "hours">>

\* MessageAnalyzer.checkRateLimit
checkRateLimit(m) ==
    Includes(m.content, TooManyGames) \/ Includes(m.content, Wait24Hours)

\* MessageAnalyzer.checkAccessRestriction
checkAccessRestriction(m) ==
    m.embeds # <<>> /\ Includes(m.embeds[1].title, <<"Access", "Restricted">>)

\* MessageAnalyzer.hasValidResponse
hasValidResponse(m) == m.embeds # <<>> \/ m.content # <<>>

analyze_restrictionFirst(m) ==
    [isRateLimited |-> checkRateLimit(m),
     isAccessRestricted |-> checkAccessRestriction(m),
     hasValidResponse |-> hasValidResponse(m),
     errorType |-> IF checkAccessRestriction(m) THEN <<"BOT_RESTRICTION">>
                   ELSE IF checkRateLimit(m) THEN <<"RATE_LIMIT">>
                   ELSE IF ~hasValidResponse(m) THEN <<"INVALID_RESPONSE">>
                   ELSE <<>>]

\* MessageAnalyzer.analyze; errorType <<>> for undefined
analyze(m) ==
    [isRateLimited |-> checkRateLimit(m),
     isAccessRestricted |-> checkAccessRestriction(m),
     hasValidResponse |-> hasValidResponse(m),
     errorType |-> IF checkRateLimit(m) THEN <<"RATE_LIMIT">>
                   ELSE IF checkAccessRestriction(m) THEN <<"BOT_RESTRICTION">>
                   ELSE IF ~hasValidResponse(m) THEN <<"INVALID_RESPONSE">>
                   ELSE <<>>]

\* DiscordClient.isGameRateLimited
isGameRateLimited(m) ==
    Includes(m.content, TooManyGames) \/ Includes(m.content, Wait24Hours)

Classifiers == {"DiscordClient", "MessageAnalyzer"}

Titles ==
    { <<"Access", "Restricted">>, <<"Profile", "Access", "Restricted">>,
      <<"Player", "Profile">>, <<"access", "restricted">> }

EmbedLists ==
    {<<>>} \cup {<<Embed(t, <<>>)>> : t \in Titles}
      \cup {<<Embed(<<"Player", "Profile">>, <<>>),
              Embed(<<"Access", "Restricted">>, <<>>)>>}

Contents ==
    { <<>>, TooManyGames, <<"please">> \o Wait24Hours, <<"wait", "48", "hours">>,
      <<"hello">> }

ClassifiedReplies == {Reply(es, c) : es \in EmbedLists, c \in Contents}

InitClassify ==
    /\ classifier \in Classifiers
    /\ botReply \in ClassifiedReplies
    /\ analysis = <<>>

\* The reply is classified: by MessageAnalyzer.analyze, or by
\* isGameRateLimited and isAccessRestricted of DiscordClient.ts
Classify ==
    /\ analysis = <<>>
    /\ analysis' =
          IF classifier = "MessageAnalyzer" THEN <<analyze(botReply)>>
          ELSE << [isRateLimited |-> isGameRateLimited(botReply),
                   isAccessRestricted |-> isAccessRestricted(botReply)] >>
    /\ UNCHANGED <<classifier, botReply, classRest>>

NextClassify == Classify

----------------------------------------------------------------------------
(* Nonce generator: generateNonce of DiscordClient.ts and of Utils         *)

\* timestamp << 22: ToInt32 of the left operand, the shift, and the result
\* read as a signed 32-bit integer.  Only the low 10 bits of the timestamp
\* survive the shift; bit 9 becomes the sign bit.
shiftLeft22(t) ==
    LET low == t % 1024
    IN  IF low >= 512 THEN (low - 1024) * 4194304 ELSE low * 4194304

\* 1 << 17
TypeTag == 131072

\* a | b for a value a whose low 22 bits are zero and 0 <= b < 2^22
bitOr(a, b) == a + b

RECURSIVE Digits(_)
\* the decimal digits of a natural number, as characters
Digits(n) ==
    LET d == <<"0", "1", "2", "3", "4", "5", "6", "7", "8", "9">>[(n % 10) + 1]
    IN  IF n < 10 THEN <<d>> ELSE Append(Digits(n \div 10), d)

\* Number.prototype.toString of a 32-bit integer
toString(n) ==
    IF n = -2147483647 - 1 THEN <<"-">> \o Digits(214748364) \o <<"8">>
    ELSE IF n < 0 THEN <<"-">> \o Digits(-n)
    ELSE Digits(n)

DigitValue(ch) ==
    CHOOSE v \in 0..9 : <<"0", "1", "2", "3", "4", "5", "6", "7", "8", "9">>[v + 1] = ch

RECURSIVE Magnitude(_)
Magnitude(digits) ==
    IF digits = <<>> THEN 0
    ELSE 10 * Magnitude(SubSeq(digits, 1, Len(digits) - 1))
           + DigitValue(digits[Len(digits)])

\* the numeric value of a nonce string; the magnitude of the most negative
\* value is kept negative so that it stays within 32 bits
NumericValue(str) ==
    IF str[1] = "-"
    THEN -10 * Magnitude(SubSeq(str, 2, Len(str) - 1)) - DigitValue(str[Len(str)])
    ELSE Magnitude(str)

\* generateNonce, with the clock and Math.floor(Math.random() * 4096) given
generateNonce(t, random) ==
    toString(bitOr(bitOr(shiftLeft22(t), TypeTag), random))

Instants == {0, 510, 1022}
Randoms == {0, 1, 4095}

InitNonce ==
    /\ timestamp \in Instants
    /\ lastStamp = <<>>
    /\ nonces = <<>>
    /\ ticks = 0

\* One millisecond passes
Tick ==
    /\ ticks < MaxTicks
    /\ ticks' = ticks + 1
    /\ timestamp' = timestamp + 1
    /\ UNCHANGED <<lastStamp, nonces, nonceRest>>

\* generateNonce is called in a millisecond later than that of the call before
GenerateNonce(random) ==
    /\ IF lastStamp = <<>> THEN TRUE ELSE lastStamp[1] < timestamp
    /\ lastStamp' = <<timestamp>>
    /\ nonces' = (IF nonces = <<>> THEN <<>> ELSE <<nonces[Len(nonces)]>>)
                    \o <<generateNonce(timestamp, random)>>
    /\ UNCHANGED <<timestamp, ticks, nonceRest>>

NextNonce == Tick \/ \E random \in Randoms : GenerateNonce(random)

----------------------------------------------------------------------------
(* Puzzle provider: GameSolver                                              *)

FIXED_SOLUTION_mirrored ==
    <<"0", "6", "1", "4", "2", "2", "3", "0", "4", "5", "5", "7", "6", "1", "7", "3">>

FIXED_SOLUTION ==
    <<"0", "1", "1", "3", "2", "5", "3", "7", "4", "2", "5", "0", "6", "6", "7", "4">>

SOLUTION_BOARD ==
    << <<FALSE, TRUE, FALSE, FALSE, FALSE, FALSE, FALSE, FALSE>>,
       <<FALSE, FALSE, FALSE, TRUE, FALSE, FALSE, FALSE, FALSE>>,
       <<FALSE, FALSE, FALSE, FALSE, FALSE, TRUE, FALSE, FALSE>>,
       <<FALSE, FALSE, FALSE, FALSE, FALSE, FALSE, FALSE, TRUE>>,
       <<FALSE, FALSE, TRUE, FALSE, FALSE, FALSE, FALSE, FALSE>>,
       <<TRUE, FALSE, FALSE, FALSE, FALSE, FALSE, FALSE, FALSE>>,
       <<FALSE, FALSE, FALSE, FALSE, FALSE, FALSE, TRUE, FALSE>>,
       <<FALSE, FALSE, FALSE, FALSE, TRUE, FALSE, FALSE, FALSE>> >>

\* GameSolver.getSolution
getSolution == FIXED_SOLUTION

\* GameSolver.getStats, with Math.floor(Math.random() * 6) + 5 given
getStats(randomSeconds) ==
    [moves |-> 8, efficiency |-> 100, solution |-> SOLUTION_BOARD,
     duration |-> Digits(randomSeconds) \o <<"s">>]

RandomSeconds == 5..10

InitPuzzle ==
    /\ puzzleSolution = <<>>
    /\ payloads = <<>>

\* executeGameSequence asks for the solution ...
GetSolution ==
    /\ puzzleSolution = <<>>
    /\ Len(payloads) < MaxPayloads
    /\ puzzleSolution' = <<getSolution>>
    /\ UNCHANGED <<payloads, puzzleRest>>

\* ... and then for the stats, and submits both
GetStats(randomSeconds) ==
    /\ puzzleSolution # <<>>
    /\ payloads' = Append(payloads, [solution |-> puzzleSolution[1],
                                     stats |-> getStats(randomSeconds)])
    /\ puzzleSolution' = <<>>
    /\ UNCHANGED puzzleRest

NextPuzzle == GetSolution \/ \E randomSeconds \in RandomSeconds : GetStats(randomSeconds)

----------------------------------------------------------------------------
(* executeWithRetry, one call step by step                                 *)

ActionValues == {"reply", "edited reply", "null"}
ActionErrors == {"Discord operation timeout", "Request failed", "Missing Access"}

ActionResolved(value) == [threw |-> FALSE, value |-> value]
ActionRejected(error) == [threw |-> TRUE, error |-> error]

isLastAttempt_first(i, n) == i = 0

\* if (i === retries - 1) throw error
isLastAttempt(i, n) == i = n - 1

InitRetry ==
    /\ retries \in 0..MaxRetries
    /\ retryI = 0
    /\ retryPc = "loop"
    /\ invocations = <<>>
    /\ retryDelays = 0
    /\ retryOutcome = NoOutcome

\* for (...; i < retries; ...) try { return await action() ...
InvokeAction ==
    /\ retryPc = "loop"
    /\ retryI < retries
    /\ retryPc' = "awaiting"
    /\ UNCHANGED <<retries, retryI, invocations, retryDelays, retryOutcome, retryRest>>

\* the action resolves: return its value
ActionResolves(value) ==
    /\ retryPc = "awaiting"
    /\ invocations' = Append(invocations, ActionResolved(value))
    /\ retryOutcome' = Returns(value)
    /\ retryPc' = "done"
    /\ UNCHANGED <<retries, retryI, retryDelays, retryRest>>

\* the action rejects: catch, log, rethrow on the last attempt, else i++
ActionRejects(error) ==
    /\ retryPc = "awaiting"
    /\ invocations' = Append(invocations, ActionRejected(error))
    /\ IF isLastAttempt(retryI, retries)
       THEN /\ retryOutcome' = Throws(error)
            /\ retryPc' = "done"
            /\ UNCHANGED retryI
       ELSE /\ retryI' = retryI + 1
            /\ retryPc' = "loop"
            /\ UNCHANGED retryOutcome
    /\ UNCHANGED <<retries, retryDelays, retryRest>>

\* the loop ends without a return or a throw
RetriesExhausted ==
    /\ retryPc = "loop"
    /\ retryI >= retries
    /\ retryOutcome' = Throws("All retry attempts exhausted")
    /\ retryPc' = "done"
    /\ UNCHANGED <<retries, retryI, invocations, retryDelays, retryRest>>

NextRetry ==
    \/ InvokeAction
    \/ \E value \in ActionValues : ActionResolves(value)
    \/ \E error \in ActionErrors : ActionRejects(error)
    \/ RetriesExhausted

----------------------------------------------------------------------------
(* execute8QueensCommands and executeGameSequence, step by step            *)

GameIds == {"g1", "g2"}

Backtick == "backtick"

GameIdField(g) == Field(<<"Game", "ID">>, <<Backtick, g, Backtick>>)

\* What executeSlashCommand(account, '8queens') may resolve with
GameReplies ==
    { Reply(<<>>, TooManyGames),
      Reply(<<Embed(<<"Access", "Restricted">>, <<>>)>>, <<>>),
      Reply(<<Embed(<<"8", "Queens", "Puzzle">>, <<>>)>>, <<>>),
      Reply(<<Embed(<<"8", "Queens", "Puzzle">>, <<GameIdField("g1")>>)>>, Wait24Hours),
      Reply(<<Embed(<<"Access", "Restricted">>, <<GameIdField("g2")>>)>>, <<>>),
      Reply(<<>>, <<>>) }
      \cup {Reply(<<Embed(<<"8", "Queens", "Puzzle">>,
                          <<Field(<<"Play">>, <<"link">>), GameIdField(g)>>)>>, <<>>)
              : g \in GameIds}

\* gameIdField.value.replace(/\x60/g, '').trim()
stripBackticks(value) == SelectSeq(value, LAMBDA t : t # Backtick)

\* extractGameInfo: <<>> for null, else <<gameId>>
extractGameInfo(message) ==
    IF message.embeds = <<>> THEN <<>>
    ELSE IF ~Includes(message.embeds[1].title, <<"8", "Queens">>) THEN <<>>
    ELSE LET fields == message.embeds[1].fields
             hits == {k \in 1..Len(fields) : Includes(fields[k].name, <<"Game", "ID">>)}
         IN  IF hits = {} THEN <<>>
             ELSE LET first == CHOOSE k \in hits : \A j \in hits : k <= j
                  IN  <<stripBackticks(fields[first].value)>>

VictoryUrls == {Url(<<API_BASE_URL>>, <<"r", "victory", g>>) : g \in GameIds}

CliCommands ==
    { <<"soundness-cli", "send", "--game", g>> : g \in GameIds }

\* URL.href, as text
href(u) == u.origin \o u.path

\* What pollForCLICommand may return: a command from a result page, or the
\* target of a 302 answer
PollResults == CliCommands \cup {href(u) : u \in VictoryUrls}

EmptyTrace ==
    [commands |-> 0, reply |-> <<>>, submitArg |-> <<>>, submitRet |-> <<>>,
     pollArg |-> <<>>, pollRet |-> <<>>, execArg |-> <<>>, result |-> "none"]

\* What the loop body does to the store after executeGameSequence returned:
\* the four branches only log
storeAfterSequence(s, accountId, result) == s

countsAsPlayed_unlessError(result) == result # "error"

\* if (result.success) anyGamesPlayed = true
countsAsPlayed(result) == result = "success"

remainingAfter_abortsOnError(q, result) ==
    IF result = "error" THEN <<>> ELSE Tail(q)

\* for (const account of confirmedAccounts): whatever the result was, the
\* loop goes on with the accounts after the current one
remainingAfter(q, result) == Tail(q)

InitGame ==
    /\ gStore \in StoresFrom(1)
    /\ gQueue = <<>>
    /\ gPc = "start"
    /\ gameInfo = <<>>
    /\ gVictoryUrl = <<>>
    /\ anyGamesPlayed = FALSE
    /\ gTrace = [a \in AccountIds |-> EmptyTrace]

\* The head of the loop: the next account's sequence sends the command, or
\* the call returns
NextAccount(q) ==
    /\ gQueue' = q
    /\ gameInfo' = <<>>
    /\ gVictoryUrl' = <<>>
    /\ IF q = <<>>
       THEN gPc' = "returned" /\ UNCHANGED gTrace
       ELSE /\ gPc' = "command"
            /\ gTrace' = [gTrace EXCEPT ![Head(q).id].commands = @ + 1]

\* getConfirmedAccounts, and the first iteration
Execute8Queens ==
    /\ gPc = "start"
    /\ NextAccount(getAccountsByStatus(gStore, "confirmed"))
    /\ UNCHANGED <<gStore, anyGamesPlayed, gameRest>>

\* executeGameSequence returns result: the branch of the loop body, then the
\* inter-command delay is awaited
SequenceReturns(result) ==
    LET a == Head(gQueue).id IN
    /\ gTrace' = [gTrace EXCEPT ![a].result = result]
    /\ anyGamesPlayed' = (anyGamesPlayed \/ countsAsPlayed(result))
    /\ gStore' = storeAfterSequence(gStore, a, result)
    /\ gPc' = "delay"

\* executeSlashCommand resolves with a message (<<>> for one that is null)
CommandResolves(reply) ==
    LET a == Head(gQueue).id IN
    /\ gPc = "command"
    /\ IF reply = <<>>
       THEN \* MessageAnalyzer.analyze reads message.content of null: TypeError
            /\ gTrace' = [gTrace EXCEPT ![a].result = "error"]
            /\ anyGamesPlayed' = (anyGamesPlayed \/ countsAsPlayed("error"))
            /\ gStore' = storeAfterSequence(gStore, a, "error")
            /\ gPc' = "delay"
            /\ UNCHANGED gameInfo
       ELSE LET analysed == analyze(reply[1])
                info == extractGameInfo(reply[1])
                result == IF analysed.isRateLimited THEN "rateLimited"
                          ELSE IF analysed.isAccessRestricted THEN "accessRestricted"
                          ELSE IF info = <<>> THEN "error"
                          ELSE "none"
            IN  /\ gTrace' = [gTrace EXCEPT ![a].reply = reply,
                                             ![a].result = result,
                                             ![a].submitArg =
                                                 IF result = "none" THEN info ELSE @]
                /\ IF result = "none"
                   THEN /\ gameInfo' = info
                        /\ gPc' = "submit"
                        /\ UNCHANGED <<anyGamesPlayed, gStore>>
                   ELSE /\ anyGamesPlayed' = (anyGamesPlayed \/ countsAsPlayed(result))
                        /\ gStore' = storeAfterSequence(gStore, a, result)
                        /\ gPc' = "delay"
                        /\ UNCHANGED gameInfo
    /\ UNCHANGED <<gQueue, gVictoryUrl, gameRest>>

\* An awaited call of the sequence throws: the catch block returns the error
StageThrows ==
    /\ gPc \in {"command", "submit", "poll", "transaction"}
    /\ SequenceReturns("error")
    /\ UNCHANGED <<gQueue, gameInfo, gVictoryUrl, gameRest>>

\* submitGameCompletion(gameInfo.gameId, ...) returns url
SubmitReturns(url) ==
    LET a == Head(gQueue).id IN
    /\ gPc = "submit"
    /\ gVictoryUrl' = <<url>>
    /\ gTrace' = [gTrace EXCEPT ![a].submitRet = <<url>>, ![a].pollArg = <<url>>]
    /\ gPc' = "poll"
    /\ UNCHANGED <<gStore, gQueue, gameInfo, anyGamesPlayed, gameRest>>

\* pollForCLICommand(victoryUrl) returns cliCommand, which is handed to
\* cliExecutor.executeCommand
PollReturns(cliCommand) ==
    LET a == Head(gQueue).id IN
    /\ gPc = "poll"
    /\ gTrace' = [gTrace EXCEPT ![a].pollRet = <<cliCommand>>,
                                 ![a].execArg = <<cliCommand>>]
    /\ gPc' = "transaction"
    /\ UNCHANGED <<gStore, gQueue, gameInfo, gVictoryUrl, anyGamesPlayed, gameRest>>

\* executeCommand resolves: return { success: true }
TransactionResolves ==
    /\ gPc = "transaction"
    /\ SequenceReturns("success")
    /\ UNCHANGED <<gQueue, gameInfo, gVictoryUrl, gameRest>>

\* await Utils.delay(config.COMMAND_DELAY) is over
GameDelayOver ==
    /\ gPc = "delay"
    /\ NextAccount(remainingAfter(gQueue, gTrace[Head(gQueue).id].result))
    /\ UNCHANGED <<gStore, anyGamesPlayed, gameRest>>

NextGame ==
    \/ Execute8Queens
    \/ \E reply \in {<<>>} \cup {<<m>> : m \in GameReplies} : CommandResolves(reply)
    \/ StageThrows
    \/ \E url \in VictoryUrls : SubmitReturns(url)
    \/ \E cliCommand \in PollResults : PollReturns(cliCommand)
    \/ TransactionResolves
    \/ GameDelayOver

----------------------------------------------------------------------------
Init ==
    InitWait /\ InitCycle /\ InitOp /\ InitPending /\ InitFailures /\ InitStore
      /\ InitPoll /\ InitParse /\ InitExec /\ InitClassify
      /\ InitNonce /\ InitPuzzle /\ InitRetry
      /\ InitGame /\ InitProfile

Next ==
    NextWait \/ NextCycle \/ NextOp \/ NextPending \/ NextFailures \/ NextStore
      \/ NextPoll \/ NextParse \/ NextExec \/ NextClassify
      \/ NextNonce \/ NextPuzzle \/ NextRetry
      \/ NextGame \/ NextProfile

Spec == Init /\ [][Next]_vars

\* Each component is also run alone, the others at rest: no action of one
\* component writes the variables of another
RestCycle == store = <<>> /\ InitCycle

RestOp ==
    /\ InitOp
    /\ opName = "validateAccount"
    /\ config = [REQUIRED_ROLES |-> {"r1"}, SPECIAL_ROLES |-> {"s1"},
                 FALLBACK_CHANNEL_ID |-> TRUE]

RestPending == InitPending /\ pStore = <<>> /\ clientImpl = "DiscordClient"

\* The components that start in one state only
RestSingles == InitWait /\ InitFailures /\ InitStore

RestPoll == pollType = "victory" /\ InitPoll

RestParse == commandString = <<>> /\ InitParse

RestExec == command = <<>> /\ InitExec

RestClassify ==
    classifier = "MessageAnalyzer" /\ botReply = Reply(<<>>, <<>>) /\ InitClassify

RestNonce == timestamp = 0 /\ InitNonce

RestRetry == retries = 2 /\ InitRetry

RestGame == gStore = <<>> /\ InitGame

RestProfile == profMessage = Reply(<<Embed(<<"8", "Queens">>, <<>>)>>, <<>>) /\ InitProfile

RestOthers ==
    RestSingles /\ RestPoll /\ RestParse /\ RestExec /\ RestClassify
      /\ RestNonce /\ InitPuzzle /\ RestRetry /\ RestGame /\ RestProfile

InitWaitAlone == RestOthers /\ RestCycle /\ RestOp /\ RestPending

InitCycleAlone == RestOthers /\ InitCycle /\ RestOp /\ RestPending

InitOpAlone == RestOthers /\ RestCycle /\ InitOp /\ RestPending

\* handlePendingAccounts reads FALLBACK_CHANNEL_ID and SPECIAL_ROLES
InitPendingAlone ==
    /\ RestOthers /\ RestCycle
    /\ InitOp /\ opName = "validateAccount" /\ config.REQUIRED_ROLES = {"r1"}
    /\ InitPending

InitIntakeAlone ==
    /\ RestOthers /\ RestCycle
    /\ InitOp /\ opName = "validateAccount" /\ config.REQUIRED_ROLES = {"r1"}
    /\ InitIntake

SpecIntake == InitIntakeAlone /\ [][NextIntake]_vars

SpecWait == InitWaitAlone /\ [][NextWait]_vars

InitInteractionAlone ==
    /\ InitInteraction /\ InitFailures /\ InitStore
    /\ RestCycle /\ RestOp /\ RestPending /\ RestPoll /\ RestParse /\ RestExec
    /\ RestClassify /\ RestNonce /\ InitPuzzle /\ RestRetry /\ RestGame /\ RestProfile

SpecInteraction == InitInteractionAlone /\ [][NextInteraction]_vars

\* setTimeout(..., 30000) always expires unless cleared
FairSpecWait == InitWaitAlone /\ [][NextWait]_vars /\ WF_vars(TimerFire)

SpecCycle == InitCycleAlone /\ [][NextCycle]_vars

\* Every awaited account operation settles (login timeout, 30 s reply wait,
\* polling budget, watchdog) and every Utils.delay timer expires
FairSpecCycle ==
    /\ InitCycleAlone /\ [][NextCycle]_vars
    /\ \A i \in CycleSlots :
          /\ WF_vars(\E r \in RevalidationResults \cup GameResults \cup ProfileResults :
                        OperationReturns(i, r))
          /\ WF_vars(DelayOver(i))

SpecOp == InitOpAlone /\ [][NextOp]_vars

SpecPending == InitPendingAlone /\ [][NextPending]_vars

SpecFailures == InitWaitAlone /\ [][NextFailures]_vars

SpecStore == InitWaitAlone /\ [][NextStore]_vars

InitPollAlone ==
    RestSingles /\ RestCycle /\ RestOp /\ RestPending /\ InitPoll /\ RestParse
      /\ RestExec /\ RestClassify /\ RestNonce /\ InitPuzzle /\ RestRetry /\ RestGame /\ RestProfile

InitParseAlone ==
    RestSingles /\ RestCycle /\ RestOp /\ RestPending /\ RestPoll /\ InitParse
      /\ RestExec /\ RestClassify /\ RestNonce /\ InitPuzzle /\ RestRetry /\ RestGame /\ RestProfile

SpecParse == InitParseAlone /\ [][NextParse]_vars

InitExecAlone ==
    RestSingles /\ RestCycle /\ RestOp /\ RestPending /\ RestPoll /\ RestParse
      /\ InitExec /\ RestClassify /\ RestNonce /\ InitPuzzle /\ RestRetry /\ RestGame /\ RestProfile

InitClassifyAlone ==
    RestSingles /\ RestCycle /\ RestOp /\ RestPending /\ RestPoll /\ RestParse
      /\ RestExec /\ InitClassify /\ RestNonce /\ InitPuzzle /\ RestRetry /\ RestGame /\ RestProfile

InitNonceAlone ==
    RestSingles /\ RestCycle /\ RestOp /\ RestPending /\ RestPoll /\ RestParse
      /\ RestExec /\ RestClassify /\ InitNonce /\ InitPuzzle /\ RestRetry /\ RestGame /\ RestProfile

SpecNonce == InitNonceAlone /\ [][NextNonce]_vars

InitPuzzleAlone ==
    RestSingles /\ RestCycle /\ RestOp /\ RestPending /\ RestPoll /\ RestParse
      /\ RestExec /\ RestClassify /\ RestNonce /\ InitPuzzle /\ RestRetry /\ RestGame /\ RestProfile

SpecPuzzle == InitPuzzleAlone /\ [][NextPuzzle]_vars

InitRetryAlone ==
    RestSingles /\ RestCycle /\ RestOp /\ RestPending /\ RestPoll /\ RestParse
      /\ RestExec /\ RestClassify /\ RestNonce /\ InitPuzzle /\ InitRetry
      /\ RestGame /\ RestProfile

SpecRetry == InitRetryAlone /\ [][NextRetry]_vars

InitGameAlone ==
    RestSingles /\ RestCycle /\ RestOp /\ RestPending /\ RestPoll /\ RestParse
      /\ RestExec /\ RestClassify /\ RestNonce /\ InitPuzzle /\ RestRetry
      /\ InitGame /\ RestProfile

SpecGame == InitGameAlone /\ [][NextGame]_vars

\* Every awaited call of a sequence settles (reply wait of 30 s, polling
\* budget, 60 s watchdog) and the inter-command delay expires
FairSpecGame == InitGameAlone /\ [][NextGame]_vars /\ WF_vars(NextGame)

SpecClassify == InitClassifyAlone /\ [][NextClassify]_vars

InitProfileAlone ==
    RestSingles /\ RestCycle /\ RestOp /\ RestPending /\ RestPoll /\ RestParse
      /\ RestExec /\ RestClassify /\ RestNonce /\ InitPuzzle /\ RestRetry
      /\ RestGame
      /\ InitProfile

SpecProfile == InitProfileAlone /\ [][NextProfile]_vars

SpecExec == InitExecAlone /\ [][NextExec]_vars

\* The watchdog timer expires unless it is cleared; nothing makes the
\* process exit
FairSpecExec == InitExecAlone /\ [][NextExec]_vars /\ WF_vars(WatchdogFires)

SpecPoll == InitPollAlone /\ [][NextPoll]_vars

\* Every request settles (the axios instance has timeout: 30000), every
\* delay timer expires and the synchronous steps of the loop run
FairSpecPoll == InitPollAlone /\ [][NextPoll]_vars /\ WF_vars(NextPoll)

----------------------------------------------------------------------------
(* Reply-wait claims *)

IsTargetBot(m) == m.channel = channelId /\ m.author = botId

\* C1: for every interleaving of messageCreate events, messageUpdate events
\* and the timer, resolve/reject is called at most once, and once the wait
\* has an outcome both listeners and the timer are detached and no handler
\* of this wait has run after the outcome.
C1_AtMostOneOutcome ==
    /\ wSettleCalls <= 1
    /\ wLateRuns = 0
    /\ wOutcome # Pending =>
          /\ wSettleCalls = 1
          /\ wListeners = {}
          /\ wTimer = "off"

\* A qualifying message is emitted after the wait was rejected by the timer
C1_Witness ==
    /\ wOutcome = TimeoutRejection
    /\ wEvent.type = "messageCreate"
    /\ QualifiesCreate(wEvent.new[1])

\* C2: while the wait is pending, a message of the target bot in the target
\* channel with flags 192 leaves the wait pending (and is cached); when the
\* cached message has flags 192 and an edit of the same id from flags 192 to
\* flags 64 arrives, the wait resolves with the edited message, by the one
\* and only settle call; a resolved wait never changes its result.
C2_LoadingThenEdit ==
    [][ /\ ( /\ wOutcome = Pending
             /\ wEvent'.type = "messageCreate"
             /\ IsTargetBot(wEvent'.new[1])
             /\ BitfieldIs(wEvent'.new[1], LoadingFlags) )
          => ( wOutcome' = Pending /\ lastMessage' = wEvent'.new )
        /\ ( /\ wOutcome = Pending
             /\ lastMessage # <<>>
             /\ BitfieldIs(lastMessage[1], LoadingFlags)
             /\ wEvent'.type = "messageUpdate"
             /\ IsTargetBot(wEvent'.new[1])
             /\ wEvent'.new[1].id = lastMessage[1].id
             /\ BitfieldIs(wEvent'.old[1], LoadingFlags)
             /\ BitfieldIs(wEvent'.new[1], FinalFlags) )
          => ( wOutcome' = Resolved(wEvent'.new[1]) /\ wSettleCalls' = 1 )
        /\ ( wOutcome.kind = "resolved" )
          => ( wOutcome' = wOutcome /\ wSettleCalls' = wSettleCalls )
      ]_vars

\* The wait was resolved by the edit of the cached loading message
C2_Witness ==
    /\ wOutcome.kind = "resolved"
    /\ wEvent.type = "messageUpdate"
    /\ wOutcome.msg = wEvent.new
    /\ BitfieldIs(wEvent.new[1], FinalFlags)
    /\ lastMessage # <<>>
    /\ BitfieldIs(lastMessage[1], LoadingFlags)
    /\ lastMessage[1].id = wEvent.new[1].id
    /\ wSettleCalls = 1

\* C3: while the wait is pending, a new message of the target bot in the
\* target channel whose flags are 64 or absent resolves the wait with that
\* very message in the step that delivers it, and detaches the wait.
C3_FinalResolvesImmediately ==
    [][ ( /\ wOutcome = Pending
          /\ wEvent'.type = "messageCreate"
          /\ IsTargetBot(wEvent'.new[1])
          /\ (BitfieldIs(wEvent'.new[1], FinalFlags) \/ wEvent'.new[1].flags = <<>>) )
        => ( /\ wOutcome' = Resolved(wEvent'.new[1])
             /\ wListeners' = {}
             /\ wTimer' = "off" )
      ]_vars

\* A message without flags resolved the wait, no edit having been seen
C3_Witness ==
    /\ wOutcome.kind = "resolved"
    /\ wEvent.type = "messageCreate"
    /\ wOutcome.msg = wEvent.new
    /\ wEvent.new[1].flags = <<>>
    /\ wSettleCalls = 1

\* C4: every wait eventually has an outcome, and a wait that ended without
\* any qualifying message or edit having been delivered ended by the
\* timeout rejection.
C4_EventuallyTerminal ==
    /\ <>(wOutcome # Pending)
    /\ []((wOutcome # Pending /\ ~wQualified) => wOutcome = TimeoutRejection)

\* Only a loading message arrived, never edited: the wait timed out
C4_Witness ==
    /\ wOutcome = TimeoutRejection
    /\ ~wQualified
    /\ lastMessage # <<>>
    /\ BitfieldIs(lastMessage[1], LoadingFlags)

----------------------------------------------------------------------------
(* Cycle orchestrator claims *)

\* C5: at any time at most one invocation of runCycle is running, and at
\* most one account-level operation (revalidation, game sequence, profile
\* refresh) is in flight.
C5_OneOperationInFlight ==
    /\ Cardinality(RunningCycles) <= 1
    /\ Cardinality(OperationsInFlight) <= 1

----------------------------------------------------------------------------
(* Session and validation claims *)

\* C6: for validateAccount, revalidatePendingAccount and executeSlashCommand,
\* on every exit path no session remains logged in after the call returned
C6_SessionReleased == opPc = "returned" => client # "loggedIn"

\* The role gate was reached with a member record
GateReached ==
    /\ opName = "validateAccount"
    /\ opIn.gate # <<>>
    /\ opIn.gate[1].guildOk /\ opIn.gate[1].memberOk

GatePassed ==
    /\ GateReached
    /\ config.REQUIRED_ROLES \subseteq opIn.gate[1].userRoles
    /\ config.SPECIAL_ROLES \cap opIn.gate[1].userRoles # {}

\* The primary-channel probe ran and its outcome is neither a restricted
\* reply nor a reply with parseable stats
PrimaryNotConfirmed ==
    /\ opIn.general # <<>>
    /\ \/ opIn.general[1].threw
       \/ /\ ~isAccessRestricted(opIn.general[1].msg[1])
          /\ parseProfileStats(opIn.general[1].msg[1]) = <<>>

IsPendingResult ==
    /\ opResult.kind = "account"
    /\ opResult.val[1].status = "pending"
    /\ opResult.val[1].executableChannel = "none"

\* C7: validateAccount returns null, never a pending and never a confirmed
\* account, for every credential whose member record lacks at least one of
\* the required roles or holds none of the special roles
C7_RoleGateRejects ==
    (GateReached /\ ~GatePassed) => (opPc = "returned" /\ opResult = NullResult)

C7_Witness ==
    /\ GateReached
    /\ config.REQUIRED_ROLES \subseteq opIn.gate[1].userRoles
    /\ config.SPECIAL_ROLES \cap opIn.gate[1].userRoles = {}
    /\ opPc = "returned"
    /\ opResult = NullResult

\* The fallback probe of validateAccount ran (the fallback channel is
\* configured and permitted) and threw on every attempt
FallbackProbeThrew ==
    /\ GatePassed
    /\ PrimaryNotConfirmed
    /\ config.FALLBACK_CHANNEL_ID
    /\ opIn.perm # <<>>
    /\ opIn.fallback # <<>>
    /\ opIn.fallback[1].threw
    /\ opPc = "returned"

\* C8 as stated: when the role gate passed, the primary-channel probe did
\* not confirm, the fallback channel is configured and permitted and the
\* fallback probe throws after its attempts, the result is an account with
\* status pending and channel none; the credential is kept
C8_FallbackThrowKeepsPending == FallbackProbeThrew => IsPendingResult

\* C8 amended: in that case validateAccount returns null; the credential is
\* discarded
C8_FallbackThrowDiscards == FallbackProbeThrew => opResult = NullResult

C8_Witness ==
    /\ FallbackProbeThrew
    /\ opIn.general[1].threw
    /\ opResult = NullResult

\* The permission check of validateAccount ran and no special role of the
\* caller grants view permission on the fallback channel, or the check
\* itself failed
NoFallbackPermission ==
    /\ GatePassed
    /\ PrimaryNotConfirmed
    /\ opIn.perm # <<>>
    /\ \/ ~opIn.perm[1].fetched
       \/ opIn.perm[1].granting \cap opIn.gate[1].userRoles
            \cap config.SPECIAL_ROLES = {}
    /\ opPc = "returned"

\* C9: when the role gate passed, the primary-channel probe did not confirm
\* and no special role of the caller grants view permission on the fallback
\* channel (or the permission check errors), the result is an account with
\* status pending and channel none, kept rather than discarded
C9_NoPermissionKeepsPending ==
    NoFallbackPermission =>
        opResult = AccountResult(PendingAccount(opIn.gate[1].userRoles))

C9_Witness ==
    /\ NoFallbackPermission
    /\ opIn.perm[1].fetched
    /\ "r1" \in opIn.perm[1].granting \cap opIn.gate[1].userRoles
    /\ IsPendingResult

\* C10: when the role gate passed and the reply to the primary-channel
\* profile probe is classified access-restricted, the account is returned
\* confirmed with channel general and zeroed stats; when the reply carries
\* parseable profile stats it is returned confirmed with channel general
\* and those stats
C10_PrimaryProbeConfirms ==
    (GatePassed /\ opIn.general # <<>> /\ ~opIn.general[1].threw) =>
        LET reply == opIn.general[1].msg[1]
            roles == opIn.gate[1].userRoles
        IN /\ isAccessRestricted(reply) =>
                /\ opPc = "returned"
                /\ opResult = AccountResult(
                       ValidatedAccount(roles, ZeroStats, "confirmed", "general"))
           /\ parseProfileStats(reply) # <<>> =>
                /\ opPc = "returned"
                /\ opResult = AccountResult(
                       ValidatedAccount(roles, parseProfileStats(reply)[1],
                                        "confirmed", "general"))

C10_Witness ==
    /\ GatePassed
    /\ opIn.general # <<>> /\ ~opIn.general[1].threw
    /\ isAccessRestricted(opIn.general[1].msg[1])
    /\ opPc = "returned"
    /\ opResult.kind = "account"
    /\ opResult.val[1].status = "confirmed"
    /\ opResult.val[1].executableChannel = "general"
    /\ opResult.val[1].stats = ZeroStats

----------------------------------------------------------------------------
(* Revalidation claims *)

\* The store right after the k-th iteration of the loop
StoreAfter(k) == IF k < Len(pLog) THEN pLog[k + 1].before ELSE pStore

\* The k-th revalidation logged in, and a special role of the account
\* grants view permission on the configured fallback channel
PermissionGranted(k) ==
    /\ config.FALLBACK_CHANNEL_ID
    /\ pLog[k].in.loginOk
    /\ pLog[k].in.perm.fetched
    /\ pLog[k].in.perm.granting \cap pLog[k].in.roles \cap config.SPECIAL_ROLES # {}

Stored(s, id) == {s[j] : j \in {j \in 1..Len(s) : s[j].id = id}}

\* C11: revalidation of a pending account whose fallback permission is
\* granted and whose fallback probe throws returns null to the orchestrator,
\* and handlePendingAccounts removes that account id from the store in the
\* same cycle
C11_ProbeThrowRemoves ==
    \A k \in 1..Len(pLog) :
        (PermissionGranted(k) /\ pLog[k].in.probe.threw) =>
            /\ pLog[k].returned = NullResult
            /\ Stored(StoreAfter(k), pLog[k].id) = {}
            /\ Stored(pStore, pLog[k].id) = {}

\* C12: revalidatePendingAccount leaves the account unchanged (pending,
\* channel none, still in the store) when no fallback channel is configured
\* and when the permission check reports no permission; with no fallback
\* channel configured no pending account is ever promoted, whatever the
\* number of cycles
C12_UnchangedWithoutFallback ==
    /\ \A k \in 1..Len(pLog) :
          (\/ ~config.FALLBACK_CHANNEL_ID
           \/ pLog[k].in.loginOk /\ ~PermissionGranted(k)) =>
              /\ pLog[k].returned = AccountResult(PendingAccount(pLog[k].in.roles))
              /\ StoreAfter(k) = pLog[k].before
              /\ Stored(pStore, pLog[k].id) = {Account(pLog[k].id, "pending", "none")}
    /\ ~config.FALLBACK_CHANNEL_ID => pStore = pStart

C12_Witness ==
    /\ ~config.FALLBACK_CHANNEL_ID
    /\ pPc = "done"
    /\ Len(pLog) = 2
    /\ pLog[1].in.loginOk
    /\ Stored(pStore, pLog[1].id) = {Account(pLog[1].id, "pending", "none")}

TitleRestricted(reply) ==
    /\ reply.embeds # <<>>
    /\ Includes(reply.embeds[1].title, <<"Access", "Restricted">>)

\* C13: revalidation of a pending account whose fallback probe reply is
\* classified access-restricted or carries parseable profile stats promotes
\* it: the stored account for that id is confirmed with channel fallback
\* after handlePendingAccounts, and all other stored accounts are unchanged
C13_ProbeReplyPromotes ==
    \A k \in 1..Len(pLog) :
        (/\ PermissionGranted(k)
         /\ ~pLog[k].in.probe.threw
         /\ \/ TitleRestricted(pLog[k].in.probe.msg[1])
            \/ parseProfileStats(pLog[k].in.probe.msg[1]) # <<>>) =>
            /\ Stored(pStore, pLog[k].id) =
                   {Account(pLog[k].id, "confirmed", "fallback")}
            /\ Len(StoreAfter(k)) = Len(pLog[k].before)
            /\ \A j \in 1..Len(pLog[k].before) :
                  StoreAfter(k)[j] =
                      IF pLog[k].before[j].id = pLog[k].id
                      THEN Account(pLog[k].id, "confirmed", "fallback")
                      ELSE pLog[k].before[j]

C13_Witness ==
    /\ pPc = "done"
    /\ Len(pLog) = 1
    /\ PermissionGranted(1)
    /\ ~pLog[1].in.probe.threw
    /\ TitleRestricted(pLog[1].in.probe.msg[1])
    /\ Len(pStore) = 2
    /\ Stored(pStore, pLog[1].id) = {Account(pLog[1].id, "confirmed", "fallback")}
    /\ pStore # pStart

----------------------------------------------------------------------------
(* Failure-counter claim *)

ThreeConsecutiveFailures(h) ==
    \E k \in 1..(Len(h) - 2) :
        \A j \in k..(k + 2) : h[j] = "markAccountFailure"

RECURSIVE TrailingFailures(_)
TrailingFailures(h) ==
    IF h = <<>> \/ h[Len(h)] # "markAccountFailure" THEN 0
    ELSE 1 + TrailingFailures(SubSeq(h, 1, Len(h) - 1))

\* C14: over any sequence of marked failures and successes, an account is
\* removed from the store exactly when a failure is the third consecutive
\* one for its id; a success in between resets the counter to zero, so that
\* three further consecutive failures are needed
C14_EvictionAtThirdFailure ==
    \A id \in AccountIds :
        /\ ~HasAccount(fManager.accounts, id) <=> ThreeConsecutiveFailures(fEvents[id])
        /\ HasAccount(fManager.accounts, id) =>
              fManager.failureCount[id] = TrailingFailures(fEvents[id])

C14_Witness ==
    /\ fEvents[1] = <<"markAccountFailure", "markAccountFailure",
                      "resetAccountFailures", "markAccountFailure",
                      "markAccountFailure", "markAccountFailure">>
    /\ ~HasAccount(fManager.accounts, 1)
    /\ HasAccount(fManager.accounts, 2)

----------------------------------------------------------------------------
(* Account store claim *)

----------------------------------------------------------------------------
(* Poller claims *)

Handled == pollResponse # <<>>

ErrorStatus(r) == r.status # <<>> /\ r.status[1] >= 400

AbortedAtOnce ==
    /\ pollPc = "done"
    /\ pollOutcome.kind = "error"
    /\ pollRequests = attemptCount
    /\ pollDelays = attemptCount - 1

\* C16: when a poll request comes back with status 404 or any other 4xx or
\* 5xx status, on the first attempt or a later one, the call ends at once
\* with an error: no delay elapses after that response and no request is
\* issued after it.
C16_ErrorStatusAborts ==
    /\ [](Handled /\ ErrorStatus(pollResponse[1]) => AbortedAtOnce)
    /\ [][pollPc = "done" => UNCHANGED pollVars]_vars

C16_Witness ==
    /\ Handled /\ ~pollResponse[1].thrown /\ pollResponse[1].status = <<404>>
    /\ attemptCount = 1 /\ pollRequests = 1 /\ pollDelays = 0
    /\ pollPc = "done" /\ pollOutcome.kind = "error"

FailureBody(r) ==
    ~r.thrown /\ r.status = <<200>> /\ Includes(r.data.text, FailureText)

\* C17: in pollForCLICommand a 200 response whose body contains "Proof
\* generation failed - no blob ID available" ends the call at once with
\* that error, on any attempt and without a delay, even when the same body
\* holds a CLI command.
C17_FailureBodyAborts ==
    pollType = "cli" /\ Handled /\ FailureBody(pollResponse[1])
        => AbortedAtOnce /\ pollOutcome = Throws(FailureText)

C17_Witness ==
    /\ pollType = "cli" /\ Handled /\ FailureBody(pollResponse[1])
    /\ extractCLICommand(pollResponse[1].data) # <<>>
    /\ attemptCount = 1 /\ pollPc = "done" /\ pollOutcome.kind = "error"

TransportException(r) == r.thrown /\ r.status = <<>>

\* C18: an exception of a poll request that carries no HTTP status never
\* ends the call, whatever its message: the loop goes on to the 5 s delay.
C18_TransportErrorsSwallowed ==
    Handled /\ TransportException(pollResponse[1])
        => pollPc = "delay" /\ pollOutcome = NoOutcome

\* C19: every polling call ends; it issues at most 2160 requests, and it
\* ends with the timeout error only after the 2160th attempt, when no
\* attempt gave a result or an abort.
C19_PollingTerminates ==
    /\ <>(pollPc = "done")
    /\ [](pollRequests <= maxAttempts)
    /\ [](pollPc = "done" <=> pollOutcome.kind \in {"result", "error", "timeout"})
    /\ [](pollOutcome.kind = "timeout"
            => pollRequests = maxAttempts /\ pollDelays = maxAttempts)

C19_Witness ==
    /\ pollPc = "done" /\ pollOutcome = TimesOut
    /\ attemptCount = maxAttempts /\ pollRequests = maxAttempts

VictoryReply == pollType = "victory" /\ Handled /\ ~pollResponse[1].thrown

Redirect(r) == r.status[1] >= 300 /\ r.status[1] < 400 /\ r.location # <<>>

IsVictoryLink(u) == Includes(u.path, <<"r", "victory">>)

HasVictoryLink(html) ==
    \E k \in 1..Len(html.links) : IsVictoryLink(html.links[k])

FirstVictoryLink(html) ==
    html.links[CHOOSE k \in 1..Len(html.links) :
                   /\ IsVictoryLink(html.links[k])
                   /\ \A j \in 1..(k - 1) : ~IsVictoryLink(html.links[j])]

\* The absolute form of a reference resolved against the base URL
AbsoluteUrl(u) ==
    Url(IF u.origin = <<>> THEN <<API_BASE_URL>> ELSE u.origin, u.path)

ReturnsUrl(u) == pollPc = "done" /\ pollOutcome = Returns(AbsoluteUrl(u))

C21_OnePost ==
    pollType = "victory" =>
        /\ pollPosts <= 1
        /\ pollPc = "done" => pollPosts = 1

\* C21 amended: submitGameCompletion issues a POST on every attempt of its
\* polling loop and no GET: one POST when the first answer ends the call,
\* otherwise one more after each 5 s delay, at most 2160; pollForCLICommand
\* issues only GETs, one per attempt.
C21_PostPerAttempt ==
    /\ pollType = "victory" => pollPosts = attemptCount /\ pollPosts = pollRequests
    /\ pollType = "cli" => pollPosts = 0 /\ pollRequests = attemptCount
    /\ pollPosts <= maxAttempts

C21_Witness ==
    /\ pollType = "victory" /\ pollPosts = 2 /\ pollDelays = 1
    /\ pollPc = "done" /\ pollOutcome.kind = "result"

HasMarker(code) == Includes(code, <<"soundness-cli", "send">>)

CommandReply ==
    /\ pollType = "cli" /\ Handled /\ ~pollResponse[1].thrown
    /\ pollResponse[1].status = <<200>> /\ ~FailureBody(pollResponse[1])

\* C22: in pollForCLICommand, for a 200 response without the failure
\* phrase, the call returns a command whenever some code block of the body,
\* at whatever position, contains "soundness-cli send", and polling goes on
\* when no code block contains it.
C22_MarkedBlockReturned ==
    CommandReply =>
        LET code == pollResponse[1].data.code IN
        IF \E k \in 1..Len(code) : HasMarker(code[k])
        THEN pollPc = "done" /\ pollOutcome.kind = "result"
        ELSE pollPc = "delay" /\ pollOutcome = NoOutcome

\* C36: whatever pollForCLICommand returns is the cleaned content of the
\* first code block of a 200 result page, and that block contains
\* "soundness-cli send".
C36_OnlyCommandsReturned ==
    pollType = "cli" /\ pollPc = "done" /\ pollOutcome.kind = "result" =>
        /\ ~pollResponse[1].thrown
        /\ pollResponse[1].status = <<200>>
        /\ pollResponse[1].data.code # <<>>
        /\ HasMarker(pollResponse[1].data.code[1])
        /\ pollOutcome = processCLIResponse(pollResponse[1].data)

----------------------------------------------------------------------------
(* Tokenizer claim *)

\* What the claim describes, for one character: a quote opens or closes a
\* quoted region and is dropped, a space outside quotes ends the token, and
\* every other character, a space inside quotes included, is kept
SplitChar(st, char) ==
    IF char \in {DoubleQuote, SingleQuote} /\ ~st.inQuotes
    THEN [st EXCEPT !.inQuotes = TRUE, !.quoteChar = <<char>>]
    ELSE IF <<char>> = st.quoteChar /\ st.inQuotes
    THEN [st EXCEPT !.inQuotes = FALSE, !.quoteChar = <<>>]
    ELSE IF char = Space /\ ~st.inQuotes
    THEN IF st.current # <<>>
         THEN [st EXCEPT !.args = Append(st.args, st.current), !.current = <<>>]
         ELSE st
    ELSE [st EXCEPT !.current = Append(st.current, char)]

RECURSIVE SplitLoop(_, _)
SplitLoop(st, str) ==
    IF str = <<>> THEN st ELSE SplitLoop(SplitChar(st, Head(str)), Tail(str))

SplitOutsideQuotes(str) ==
    LET st == SplitLoop(ParseStart, str) IN
    IF st.current # <<>> THEN Append(st.args, st.current) ELSE st.args

\* C25: parseCommand splits the string at the spaces outside quotes; a
\* quoted region stays inside one token with its spaces preserved and its
\* quote characters stripped; the example command gives its four tokens.
C25_QuotedSpacesPreserved ==
    parsedArgs # <<>> =>
        /\ parsedArgs[1] = SplitOutsideQuotes(commandString)
        /\ commandString = ExampleCommand
             => parsedArgs[1] = << <<"soundness-cli">>, <<"send">>,
                                   <<"--key-name=", "foo", Space, "bar">>,
                                   <<"--x=1">> >>

----------------------------------------------------------------------------
(* Transaction executor claims *)

\* C23: however the output is cut into data events, the password is
\* written exactly once when the combined output holds the prompt
\* (compared without case), and never when it does not.
C23_PasswordAtFirstPrompt ==
    ptyWrites = IF hasPrompt(fullOutput) THEN 1 ELSE 0

Spawned == ptyProcess # "none"

TimeoutError == ExecRejected("CLI command execution timeout (60s)")

\* C24: executeCommand settles exactly once: once spawned the call always
\* settles, and a settled outcome never changes; it is resolved only after
\* an exit with code 0 that came before the watchdog fired; an exit with
\* another code before the watchdog rejects it with the failure message;
\* once the watchdog has fired the process is killed and the outcome is the
\* timeout error, whatever exit event follows.
C24_SettlesOnce ==
    /\ Spawned ~> execOutcome # ExecPending
    /\ [][execOutcome # ExecPending => execOutcome' = execOutcome]_vars
    /\ [](execOutcome = ExecResolved
            => timeout = "cleared" /\ exitEvent # <<>> /\ exitEvent[1].exitCode = 0)
    /\ [](timeout = "cleared" /\ exitEvent[1].exitCode # 0
            => execOutcome = ExecRejected("CLI execution failed"))
    /\ [](timeout = "fired"
            => ptyProcess \in {"killed", "exited"} /\ execOutcome = TimeoutError)

C24_Witness ==
    /\ timeout = "fired" /\ ptyProcess = "exited" /\ exitEvent[1].exitCode = 0
    /\ execSettleCalls = 2 /\ execOutcome = TimeoutError

----------------------------------------------------------------------------
(* Cycle orchestrator claims *)

CycleEnds(i) == cycles[i].pc # "idle" /\ cycles'[i].pc = "idle"

\* C26: within one cycle the profile refresh runs if and only if a game
\* sequence of that cycle completed successfully: a cycle is in its profile
\* phase only after such a success, it enters that phase from the end of
\* its game loop and from nowhere else, and it leaves the game loop for the
\* profile phase exactly when a game completed (and the store holds a
\* confirmed account to refresh).
C26_ProfilesIffGameCompleted ==
    /\ [](\A i \in CycleSlots : cycles[i].pc = "profiles" => cycles[i].completed)
    /\ [][\A i \in CycleSlots :
            /\ cycles[i].pc = "games" /\ cycles'[i].pc # "games"
                 => (cycles'[i].pc = "profiles"
                       <=> /\ cycles[i].completed
                           /\ getAccountsByStatus(store', "confirmed") # <<>>)
            /\ cycles[i].pc # "profiles" /\ cycles'[i].pc = "profiles"
                 => /\ cycles[i].pc = "games"
                    /\ Len(cycles[i].queue) = 1 /\ cycles[i].op = "delay"]_vars

C26_Witness ==
    \E i \in CycleSlots :
        /\ cycles[i].pc = "profiles" /\ cycles[i].completed
        /\ cycles[i].op = "inflight"

\* C27: the store is saved only in the step that ends a cycle, so at most
\* once per cycle, and the cycle that ends saves if and only if it removed
\* or promoted an account or replaced stats.
C27_SavedIffModified ==
    [][/\ lastSave' # "none" => \E i \in CycleSlots : CycleEnds(i)
       /\ \A i \in CycleSlots :
              CycleEnds(i) => (lastSave' # "none" <=> cycles[i].mutated)]_vars

C27_Witness ==
    /\ lastSave = "saved" /\ savedStore = store
    /\ \E i \in CycleSlots : cycles[i].pc = "idle"

\* C28: whatever fails inside a cycle, no error leaves runCycle and the
\* process is not aborted: every started cycle comes to its end, and once
\* the repeating timer is set it stays set and can start a further cycle.
C28_CycleNeverAborts ==
    /\ [](engine # "aborted")
    /\ [][engine = "interval" => engine' = "interval"]_vars
    /\ [](engine = "interval" /\ (\E i \in CycleSlots : cycles[i].pc = "idle")
            => ENABLED IntervalFire)
    /\ \A i \in CycleSlots : (cycles[i].pc # "idle") ~> (cycles[i].pc = "idle")

C28_Witness ==
    /\ lastSave = "failed" /\ engine = "interval"
    /\ \E i \in CycleSlots : cycles[i].pc = "idle"

----------------------------------------------------------------------------
(* Response classifier claims *)

FirstTitleRestricted(m) ==
    m.embeds # <<>> /\ Includes(m.embeds[1].title, <<"Access", "Restricted">>)

HasRatePhrase(m) ==
    Includes(m.content, TooManyGames) \/ Includes(m.content, Wait24Hours)

\* C29: a message is classified access-restricted exactly when the title
\* of its first embed contains "Access Restricted", whatever its body says
\* about rate limits.
C29_RestrictedIffTitle ==
    analysis # <<>> =>
        (analysis[1].isAccessRestricted <=> FirstTitleRestricted(botReply))

\* C30: MessageAnalyzer.analyze reports isRateLimited for every message
\* whose body contains "too many games recently" or "wait 24 hours",
\* whatever its embeds, and errorType is RATE_LIMIT when rate-limited, else
\* BOT_RESTRICTION when access-restricted, else INVALID_RESPONSE when the
\* message has neither an embed nor a non-empty body, else undefined.
C30_ErrorTypePriority ==
    classifier = "MessageAnalyzer" /\ analysis # <<>> =>
        /\ HasRatePhrase(botReply) => analysis[1].isRateLimited
        /\ analysis[1].errorType =
              IF analysis[1].isRateLimited THEN <<"RATE_LIMIT">>
              ELSE IF analysis[1].isAccessRestricted THEN <<"BOT_RESTRICTION">>
              ELSE IF botReply.embeds = <<>> /\ botReply.content = <<>>
              THEN <<"INVALID_RESPONSE">>
              ELSE <<>>

C30_Witness ==
    /\ classifier = "MessageAnalyzer" /\ analysis # <<>>
    /\ HasRatePhrase(botReply) /\ FirstTitleRestricted(botReply)
    /\ analysis[1].isRateLimited /\ analysis[1].isAccessRestricted
    /\ analysis[1].errorType = <<"RATE_LIMIT">>

----------------------------------------------------------------------------
(* Nonce generator and puzzle provider claims *)

\* C31: of two nonces generated at strictly increasing millisecond
\* timestamps, the numeric value of the later string is not below that of
\* the earlier one.
C31_NonceMonotone ==
    Len(nonces) = 2 => NumericValue(nonces[1]) <= NumericValue(nonces[2])

Rows == 1..8

\* the column (counted from 0) of the queens in row r (counted from 1)
QueenColumns(board, r) == {c \in 0..7 : board[r][c + 1]}

ValidPlacement(board) ==
    /\ Len(board) = 8
    /\ \A r \in Rows : Len(board[r]) = 8 /\ Cardinality(QueenColumns(board, r)) = 1
    /\ \A r1, r2 \in Rows : \A c1 \in QueenColumns(board, r1) :
         \A c2 \in QueenColumns(board, r2) :
            r1 < r2 => /\ c1 # c2
                       /\ r2 - r1 # c2 - c1
                       /\ r2 - r1 # c1 - c2

\* the (row, column) pairs a solution string spells, both counted from 0
EncodedPairs(str) ==
    {<<DigitValue(str[2 * k - 1]), DigitValue(str[2 * k])>> : k \in 1..8}

BoardPairs(board) ==
    {<<r - 1, c>> : r \in Rows, c \in 0..7} \cap
        {pr \in (0..7) \X (0..7) : board[pr[1] + 1][pr[2] + 1]}

\* C32: the board handed out is a valid 8-queens placement, and the
\* solution string handed out with it has 16 characters and spells, as
\* (row, column) digit pairs, exactly the placement of the board.
C32_SolutionMatchesBoard ==
    \A k \in 1..Len(payloads) :
        /\ ValidPlacement(payloads[k].stats.solution)
        /\ Len(payloads[k].solution) = 16
        /\ EncodedPairs(payloads[k].solution) = BoardPairs(payloads[k].stats.solution)

C32_Witness ==
    /\ Len(payloads) = 2
    /\ payloads[1].stats.duration # payloads[2].stats.duration
    /\ <<3, 7>> \in BoardPairs(payloads[2].stats.solution)

----------------------------------------------------------------------------
(* Retry helper claim *)

\* C33: in a call executeWithRetry(action, 2) the action is invoked at most
\* twice with no timer awaited in between, every invocation before the
\* latest one threw, a returned value is that of the latest invocation,
\* which resolved, and an error is thrown exactly after two invocations
\* that threw, and is the error of the second.
C33_RetryTwice ==
    retries = 2 =>
        /\ Len(invocations) <= 2
        /\ retryDelays = 0
        /\ \A k \in 1..(Len(invocations) - 1) : invocations[k].threw
        /\ retryOutcome.kind = "result" =>
              /\ invocations # <<>>
              /\ invocations[Len(invocations)] = ActionResolved(retryOutcome.val[1])
        /\ retryOutcome.kind = "error" =>
              /\ Len(invocations) = 2
              /\ invocations[2] = ActionRejected(retryOutcome.val[1])
        /\ retryPc = "done" <=> retryOutcome # NoOutcome
        /\ invocations # <<>> /\ ~invocations[Len(invocations)].threw
              => retryPc = "done"

C33_Witness ==
    /\ retries = 2
    /\ Len(invocations) = 2
    /\ invocations[1] = ActionRejected("Request failed")
    /\ invocations[2] = ActionRejected("Missing Access")
    /\ retryOutcome = Throws("Missing Access")

----------------------------------------------------------------------------
(* Game sequence claims *)

IsConfirmedIn(s, a) == \E k \in 1..Len(s) : s[k].id = a /\ s[k].status = "confirmed"

NothingAfterCommand(t) ==
    /\ t.submitArg = <<>> /\ t.submitRet = <<>>
    /\ t.pollArg = <<>> /\ t.pollRet = <<>>
    /\ t.execArg = <<>>

AllConfirmedVisited ==
    \A a \in AccountIds : IsConfirmedIn(gStore, a) => gTrace[a].commands = 1

\* C34: an account whose 8queens reply is classified rate-limited or
\* access-restricted ends its sequence with that result, without any
\* submission, polling or transaction; it does not make the call report a
\* played game, it is still in the store as confirmed, and the loop goes on:
\* when the call returns every confirmed account has had its command.
C34_ClassifiedReplyEndsSequence ==
    \A a \in AccountIds :
        LET t == gTrace[a] IN
        t.reply # <<>> /\ (analyze(t.reply[1]).isRateLimited
                             \/ analyze(t.reply[1]).isAccessRestricted) =>
            /\ t.result = IF analyze(t.reply[1]).isRateLimited THEN "rateLimited"
                          ELSE "accessRestricted"
            /\ NothingAfterCommand(t)
            /\ anyGamesPlayed => \E b \in AccountIds \ {a} : gTrace[b].result = "success"
            /\ IsConfirmedIn(gStore, a)
            /\ gPc = "returned" => AllConfirmedVisited

C34_Witness ==
    /\ gPc = "returned"
    /\ gTrace[1].result = "rateLimited"
    /\ gTrace[1].reply # <<>> /\ extractGameInfo(gTrace[1].reply[1]) # <<>>
    /\ gTrace[2].result = "accessRestricted"
    /\ ~anyGamesPlayed

\* The transaction of account a was given the command that polling returned
\* for the URL that the submission of the game id of a's own reply returned
OwnCommandExecuted(t) ==
    /\ t.reply # <<>>
    /\ extractGameInfo(t.reply[1]) # <<>>
    /\ t.submitArg = extractGameInfo(t.reply[1])
    /\ t.submitRet # <<>>
    /\ t.pollArg = t.submitRet
    /\ t.pollRet # <<>>
    /\ t.execArg = t.pollRet

\* C35: whatever stage of an account's sequence fails, the call visits every
\* confirmed account exactly once before it returns, and it does return; a
\* transaction is executed only with the command obtained by polling for
\* the game id extracted from that account's own reply.
C35_FailureIsolation ==
    /\ [](\A a \in AccountIds :
            /\ gTrace[a].commands <= 1
            /\ gTrace[a].execArg # <<>> => OwnCommandExecuted(gTrace[a]))
    /\ [](gPc = "returned" => AllConfirmedVisited)
    /\ <>(gPc = "returned")

C35_Witness ==
    /\ gPc = "returned"
    /\ gTrace[1].result = "error" /\ gTrace[1].submitRet # <<>>
    /\ gTrace[1].execArg = <<>>
    /\ gTrace[2].result = "success" /\ OwnCommandExecuted(gTrace[2])
    /\ gTrace[2].execArg[1] \in CliCommands

----------------------------------------------------------------------------
(* Status and channel claim *)

StatusMatchesChannel(a) ==
    /\ a.status \in {"confirmed", "pending"}
    /\ a.status = "confirmed" <=> a.executableChannel \in {"general", "fallback"}

\* C37: every account validateAccount or revalidatePendingAccount returned,
\* and every account of a store built from nothing by token processing and
\* runs of handlePendingAccounts, is confirmed exactly when its executable
\* channel is general or fallback; with the fallback channel configured
\* getChannelIdForAccount finds a channel for every confirmed account.
C37_StatusMatchesChannel ==
    /\ \A k \in 1..Len(pStore) :
          /\ StatusMatchesChannel(pStore[k])
          /\ pStore[k].status = "confirmed" /\ config.FALLBACK_CHANNEL_ID
                => getChannelIdForAccount(pStore[k]) # <<>>
    /\ \A k \in 1..Len(pLog) :
          pLog[k].returned.kind = "account"
             => StatusMatchesChannel(pLog[k].returned.val[1])

C37_Witness ==
    /\ pPc = "done"
    /\ Len(pStore) = 2
    /\ pStore[1].executableChannel = "general"
    /\ pStore[2].executableChannel = "fallback"
    /\ Len(pLog) = 1 /\ pLog[1].id = pStore[2].id
    /\ pLog[1].returned.kind = "account"
    /\ pLog[1].returned.val[1].status = "confirmed"

----------------------------------------------------------------------------
(* Interaction and reply claims *)

\* C38: once the interaction has been issued, a message the target bot
\* creates in the target channel while the wait is unsettled reaches the
\* message handler (it becomes the cached message), and when it is a final
\* message the wait is settled by it, also when it arrives before the POST
\* call has returned.
C38_NoLostReply ==
    wEvent.type = "messageCreate"
      /\ wEvent.new[1].channel = channelId /\ wEvent.new[1].author = botId =>
        /\ lastMessage = wEvent.new \/ wOutcome # Pending
        /\ QualifiesCreate(wEvent.new[1]) => wOutcome # Pending

\* The bolded number of the field of exactly that name, 0 when the list has
\* no such field
NumberOfField(fields, name) ==
    IF \E k \in 1..Len(fields) : fields[k].name = name
    THEN LET k == CHOOSE j \in 1..Len(fields) : fields[j].name = name IN
         IF fields[k].value = <<>> THEN 0 ELSE fields[k].value[1]
    ELSE 0

StatsByName(fields) ==
    [played |-> NumberOfField(fields, <<"Games", "Played">>),
     wins |-> NumberOfField(fields, <<"Wins">>),
     winRate |-> NumberOfField(fields, <<"Win", "Rate">>),
     badgesEarned |-> NumberOfField(fields, <<"Badges">>)]

\* C39: parseProfileStats returns null for a restricted reply and for an
\* embed whose title lacks "Profile"; otherwise each of played, wins,
\* winRate and badgesEarned is the bolded number of the field named Games
\* Played, Wins, Win Rate and Badges, or 0 when that field is missing, in
\* whatever order the embed lists its fields.
C39_StatsByFieldName ==
    profPc = "returned" =>
        profStats =
            IF \/ isAccessRestricted(profMessage)
               \/ ~Includes(profMessage.embeds[1].title, <<"Profile">>)
            THEN <<>>
            ELSE << StatsByName(profMessage.embeds[1].fields) >>

\* C40: the message a wait resolves with is by the target bot in the target
\* channel and never has flags 192. It is the message of the event that
\* resolved the wait: a created message whose flag bits are 64 or absent
\* (none set), or the edited version, with flags 64, of the message cached
\* last, edited from flags 192. An edit of a message other than the cached
\* one, or an edit delivered while nothing is cached, leaves the wait as it
\* is.
C40_ResolvedMessage ==
    /\ [](wOutcome.kind = "resolved" =>
            /\ IsTargetBot(wOutcome.msg[1])
            /\ ~BitfieldIs(wOutcome.msg[1], LoadingFlags))
    /\ [][ /\ (wOutcome = Pending /\ wOutcome'.kind = "resolved") =>
               /\ wOutcome'.msg = wEvent'.new
               /\ \/ /\ wEvent'.type = "messageCreate"
                     /\ \/ BitfieldIs(wEvent'.new[1], FinalFlags)
                        \/ BitfieldFalsy(wEvent'.new[1])
                  \/ /\ wEvent'.type = "messageUpdate"
                     /\ BitfieldIs(wEvent'.new[1], FinalFlags)
                     /\ BitfieldIs(wEvent'.old[1], LoadingFlags)
                     /\ lastMessage # <<>>
                     /\ lastMessage' = lastMessage
                     /\ lastMessage[1].id = wEvent'.new[1].id
           /\ ( /\ wEvent'.type = "messageUpdate"
                /\ IF lastMessage = <<>> THEN TRUE
                   ELSE lastMessage[1].id # wEvent'.new[1].id )
              => wOutcome' = wOutcome
         ]_vars

\* The wait was resolved by the edit, from flags 192 to 64, of the cached
\* message, and no handler has run since
C40_Witness ==
    /\ wOutcome.kind = "resolved"
    /\ wEvent.type = "messageUpdate"
    /\ wOutcome.msg = wEvent.new
    /\ IsTargetBot(wEvent.new[1])
    /\ BitfieldIs(wEvent.new[1], FinalFlags)
    /\ BitfieldIs(wEvent.old[1], LoadingFlags)
    /\ lastMessage # <<>>
    /\ lastMessage[1].id = wEvent.new[1].id
    /\ wLateRuns = 0

====
